---- MODULE Spec2Model ----
(***************************************************************************)
(* Model of the Example CRUD service: the in-memory repository, the        *)
(* business service, and the orchestration use case with its parallel      *)
(* enrichment and its detached creation notification.                      *)
(*                                                                         *)
(* Go strings are modelled as sequences of one-character strings, so that  *)
(* slicing (email[:3]), len() and suffix tests are computed as in the code. *)
(***************************************************************************)
EXTENDS Integers, Sequences, FiniteSets, TLC

\* ------------------------------------------------------------------ bounds

\* number of request goroutines that may be in flight at the same time
NumProcs == 2

\* total number of operations the callers start in one behaviour
MaxOps == 2

\* number of detached notification goroutines alive at the same time
MaxNotify == 2

\* last reading of the clock that the timestamps tell apart
MaxClock == 2

\* largest page size a caller of List asks for
MaxLimit == 2

\* number of Example structs allocated in one behaviour of the callers that
\* keep their pointers
MaxHeap == 4

\* deliveries the broker makes on the consumer's channel
MaxDeliveries == 2

\* largest maxRetries handed to TestConnection
MaxRetries == 3

\* ------------------------------------------------------- program constants

MinAge == 0
MaxAge == 150
MinNameLen == 1
MaxNameLen == 100
CorporateMinAge == 18
VIPMinAge == 21

\* uc.timeout (30 * time.Second), in ticks of the clock
Timeout == 2

\* ------------------------------------------------------------ input values

NameAl == <<"A", "l">>
NameBob == <<"B", "o", "b">>

\* abc@x.io and abc@y.io share their first three characters
EmailX == <<"a", "b", "c", "@", "x", ".", "i", "o">>
EmailY == <<"a", "b", "c", "@", "y", ".", "i", "o">>
EmailCorp == <<"k", "i", "d", "@", "c", "o", "r", "p", ".", "c", "o", "m">>

\* a@b.c passes the service's isValidEmailFormat and fails the entity's regex
EmailShort == <<"a", "@", "b", ".", "c">>

Procs == 1..NumProcs

NoExample == [id |-> <<>>, name |-> <<>>, email |-> <<>>, age |-> 0,
              createdAt |-> 0, updatedAt |-> 0]

\* ------------------------------------------------------------ string tools

Lower == {"a", "b", "c", "d", "e", "f", "g", "h", "i", "j", "k", "l", "m",
          "n", "o", "p", "q", "r", "s", "t", "u", "v", "w", "x", "y", "z"}
Upper == {"A", "B", "C", "D", "E", "F", "G", "H", "I", "J", "K", "L", "M",
          "N", "O", "P", "Q", "R", "S", "T", "U", "V", "W", "X", "Y", "Z"}
DigitChars == <<"0", "1", "2", "3", "4", "5", "6", "7", "8", "9">>
Letters == Lower \cup Upper
AlphaNum == Letters \cup {DigitChars[i] : i \in 1..10}

HasSuffix(s, suf) ==
  /\ Len(s) >= Len(suf)
  /\ SubSeq(s, Len(s) - Len(suf) + 1, Len(s)) = suf

\* fmt's %d of a non-negative int
RECURSIVE Itoa(_)
Itoa(n) ==
  IF n < 10 THEN <<DigitChars[n + 1]>>
  ELSE Itoa(n \div 10) \o <<DigitChars[(n % 10) + 1]>>

\* the id caller p passes when it calls the repository directly
DirectID(p) == <<"r">> \o Itoa(p)

\* the (name, email, age) inputs of the requests: two that share an email,
\* two with different emails that share email[:3] and len(name), one that
\* the corporate age rule rejects
Requests ==
  { [id |-> <<>>, name |-> NameAl, email |-> EmailX, age |-> 30],
    [id |-> <<>>, name |-> NameBob, email |-> EmailX, age |-> 30],
    [id |-> <<>>, name |-> NameAl, email |-> EmailY, age |-> 30],
    [id |-> <<>>, name |-> NameAl, email |-> EmailCorp, age |-> 16] }

\* the inputs of the requests that are validated externally first
ValidateRequests ==
  { [id |-> <<>>, name |-> NameAl, email |-> EmailX, age |-> 30],
    [id |-> <<>>, name |-> NameAl, email |-> EmailCorp, age |-> 16] }

\* the inputs of the update requests
UpdateRequests ==
  { [id |-> <<>>, name |-> NameBob, email |-> EmailX, age |-> 30],
    [id |-> <<>>, name |-> NameBob, email |-> EmailY, age |-> 30],
    [id |-> <<>>, name |-> NameBob, email |-> EmailShort, age |-> 30],
    [id |-> <<>>, name |-> NameAl, email |-> EmailCorp, age |-> 16] }

\* names the validator's validateName rejects: a digit, a leading space, two
\* spaces in a row
NameDigit == <<"A", "1">>
NameLead == <<" ", "A", "l">>
NameGap == <<"A", " ", " ", "B">>
NameBad == <<"b", "a", "d", "w", "o", "r", "d", "1">>
EmailQ == <<"q", "r", "s", "@", "x", ".", "i", "o">>

\* inputs of the service that probe each field rule
RuleRequests ==
  { [id |-> <<>>, name |-> NameAl, email |-> EmailX, age |-> 30],
    [id |-> <<>>, name |-> NameDigit, email |-> EmailQ, age |-> 0],
    [id |-> <<>>, name |-> NameLead, email |-> EmailY, age |-> 150],
    [id |-> <<>>, name |-> NameGap, email |-> EmailQ, age |-> 30],
    [id |-> <<>>, name |-> NameBad, email |-> EmailQ, age |-> 30],
    [id |-> <<>>, name |-> <<>>, email |-> EmailQ, age |-> 30],
    [id |-> <<>>, name |-> NameBob, email |-> EmailShort, age |-> 30],
    [id |-> <<>>, name |-> NameBob, email |-> EmailQ, age |-> 151],
    [id |-> <<>>, name |-> NameBob, email |-> EmailQ, age |-> -1] }

\* the entities handed to the repository by its direct callers
DirectEmails == {EmailX, EmailY}

\* ------------------------------------------------------------ domain entity

\* what time.Now() returns: it never goes back, and two readings may agree
VARIABLE clock

\* ^[a-zA-Z0-9._%+-]+@[a-zA-Z0-9.-]+\.[a-zA-Z]{2,}$
isValidEmail(email) ==
  \E at \in 1..Len(email) :
    /\ email[at] = "@"
    /\ at > 1
    /\ \A i \in 1..(at - 1) : email[i] \in AlphaNum \cup {".", "_", "%", "+", "-"}
    /\ \E dot \in (at + 2)..Len(email) :
         /\ email[dot] = "."
         /\ \A i \in (at + 1)..(dot - 1) : email[i] \in AlphaNum \cup {".", "-"}
         /\ Len(email) - dot >= 2
         /\ \A i \in (dot + 1)..Len(email) : email[i] \in Letters

validateExample(name, email, age) ==
  IF name = <<>> THEN "name cannot be empty"
  ELSE IF Len(name) > 100 THEN "name cannot exceed 100 characters"
  ELSE IF email = <<>> THEN "email cannot be empty"
  ELSE IF ~isValidEmail(email) THEN "invalid email format"
  ELSE IF age < 0 THEN "age cannot be negative"
  ELSE IF age > 150 THEN "age cannot exceed 150"
  ELSE "nil"

\* the entity built by NewExample when validateExample passes
NewExample(id, name, email, age) ==
  [id |-> id, name |-> name, email |-> email, age |-> age,
   createdAt |-> clock, updatedAt |-> clock]

\* an Update that clears the timestamp instead of setting it
ExampleUpdate_StampCleared(e, name, email, age) ==
  [e EXCEPT !.name = name, !.email = email, !.age = age, !.updatedAt = 0]

\* the entity after Example.Update when validateExample passes
ExampleUpdate(e, name, email, age) ==
  [e EXCEPT !.name = name, !.email = email, !.age = age, !.updatedAt = clock]

\* the entities a caller can hold for (id, name, email, age): built by
\* NewExample at some earlier reading of the clock, and possibly changed by
\* Example.Update at a later one
HeldExamples(id, name, email, age) ==
  { [id |-> id, name |-> name, email |-> email, age |-> age,
     createdAt |-> t[1], updatedAt |-> t[2]] :
      t \in {x \in (0..clock) \X (0..clock) : x[1] <= x[2]} }

\* ------------------------------------------------- service helper functions

isValidEmailFormat(email) ==
  LET ats == {i \in 1..Len(email) : email[i] = "@"}
      dots == {i \in 1..Len(email) : email[i] = "."}
      atIndex == IF ats = {} THEN -1 ELSE (CHOOSE i \in ats : TRUE) - 1
      dotIndex == IF dots = {} THEN -1
                  ELSE (CHOOSE i \in dots : \A j \in dots : j <= i) - 1
  IN  /\ Len(email) >= 5
      /\ Cardinality(ats) <= 1
      /\ atIndex > 0
      /\ dotIndex > atIndex + 1
      /\ dotIndex < Len(email) - 1

validateInput(name, email, age) ==
  IF name = <<>> THEN "ErrorCodeInvalidName"
  ELSE IF Len(name) < MinNameLen \/ Len(name) > MaxNameLen THEN "ErrorCodeInvalidName"
  ELSE IF email = <<>> THEN "ErrorCodeInvalidEmail"
  ELSE IF ~isValidEmailFormat(email) THEN "ErrorCodeInvalidEmail"
  ELSE IF age < MinAge \/ age > MaxAge THEN "ErrorCodeInvalidAge"
  ELSE "nil"

containsProfanity(name) ==
  name \in {<<"b", "a", "d", "w", "o", "r", "d", "1">>,
            <<"b", "a", "d", "w", "o", "r", "d", "2">>}

isCorporateEmail(email) ==
  \/ HasSuffix(email, <<"@", "c", "o", "r", "p", ".", "c", "o", "m">>)
  \/ HasSuffix(email, <<"@", "e", "n", "t", "e", "r", "p", "r", "i", "s", "e",
                        ".", "c", "o", "m">>)

isVIPDomain(email) ==
  \/ HasSuffix(email, <<"@", "v", "i", "p", ".", "c", "o", "m">>)
  \/ HasSuffix(email, <<"@", "p", "r", "e", "m", "i", "u", "m", ".", "c", "o", "m">>)

ValidateExampleBusinessRules(name, email, age) ==
  IF containsProfanity(name) THEN "ErrorCodeProfanityDetected"
  ELSE IF isCorporateEmail(email) /\ age < CorporateMinAge
    THEN "ErrorCodeCorporateEmailUnderage"
  ELSE IF isVIPDomain(email) /\ age < VIPMinAge THEN "ErrorCodeVIPDomainUnderage"
  ELSE "nil"

\* fmt.Sprintf("ex_%s_%d", email[:3], len(name))
generateExampleID(name, email) ==
  <<"e", "x", "_">> \o SubSeq(email, 1, 3) \o <<"_">> \o Itoa(Len(name))

\* a mapping that lets ErrExampleAlreadyExists fall through to the default
mapRepositoryError_NoConflictCase(err) ==
  CASE err = "nil" -> "nil"
    [] err = "ErrExampleNotFound" -> "ErrorCodeExampleNotFound"
    [] OTHER -> "ErrorCodeDatabaseError"

mapRepositoryError(err) ==
  CASE err = "nil" -> "nil"
    [] err = "ErrExampleNotFound" -> "ErrorCodeExampleNotFound"
    [] err = "ErrExampleAlreadyExists" -> "ErrorCodeExampleAlreadyExists"
    [] err = "ErrDatabaseConnection" -> "ErrorCodeDatabaseError"
    [] err = "ErrQueryTimeout" -> "ErrorCodeDatabaseError"
    [] OTHER -> "ErrorCodeDatabaseError"

\* --------------------------------------------------- validator package

\* validateName: only letters, spaces, hyphens and apostrophes; no space at
\* either end; no two spaces in a row
validateName(name) ==
  /\ \A i \in DOMAIN name : name[i] \in Lower \cup Upper \cup {" ", "-", "'"}
  /\ name # <<>> => name[1] # " " /\ name[Len(name)] # " "
  /\ \A i \in 1..(Len(name) - 1) : ~(name[i] = " " /\ name[i + 1] = " ")

\* validateAge
validateAge(age) == age >= 0 /\ age <= 150

\* ------------------------------------------------- in-memory repository

\* data is the map[string]*domain.Example guarded by the RWMutex; each
\* operator below is one method body, run while the mutex is held

EmailHolders(d, email) == {i \in DOMAIN d : d[i].email = email}

Put(d, e) == [i \in DOMAIN d \cup {e.id} |-> IF i = e.id THEN e ELSE d[i]]

\* Create that forgets the scan for the email
InMemoryCreate_NoEmailScan(d, e) ==
  IF e.id \in DOMAIN d
    THEN [err |-> "ErrExampleAlreadyExists", data |-> d]
    ELSE [err |-> "nil", data |-> Put(d, e)]

InMemoryCreate(d, e) ==
  IF e.id \in DOMAIN d
    THEN [err |-> "ErrExampleAlreadyExists", data |-> d]
  ELSE IF EmailHolders(d, e.email) # {}
    THEN [err |-> "ErrExampleAlreadyExists", data |-> d]
  ELSE [err |-> "nil", data |-> Put(d, e)]

\* Update that stores the new state before it looks for the conflict
InMemoryUpdate_WriteFirst(d, e) ==
  IF e.id \notin DOMAIN d
    THEN [err |-> "ErrExampleNotFound", data |-> d]
  ELSE IF d[e.id].email # e.email /\ EmailHolders(d, e.email) \ {e.id} # {}
    THEN [err |-> "ErrExampleAlreadyExists", data |-> Put(d, e)]
  ELSE [err |-> "nil", data |-> Put(d, e)]

\* Update that forgets the scan for another holder of the email
InMemoryUpdate_NoEmailScan(d, e) ==
  IF e.id \notin DOMAIN d
    THEN [err |-> "ErrExampleNotFound", data |-> d]
    ELSE [err |-> "nil", data |-> Put(d, e)]

InMemoryUpdate(d, e) ==
  IF e.id \notin DOMAIN d
    THEN [err |-> "ErrExampleNotFound", data |-> d]
  ELSE IF d[e.id].email # e.email /\ EmailHolders(d, e.email) \ {e.id} # {}
    THEN [err |-> "ErrExampleAlreadyExists", data |-> d]
  ELSE [err |-> "nil", data |-> Put(d, e)]

InMemoryGetByID(d, id) ==
  IF id \notin DOMAIN d
    THEN [err |-> "ErrExampleNotFound", example |-> NoExample]
    ELSE [err |-> "nil", example |-> d[id]]

InMemoryDelete(d, id) ==
  IF id \notin DOMAIN d
    THEN [err |-> "ErrExampleNotFound", data |-> d]
  ELSE [err |-> "nil", data |-> [i \in DOMAIN d \ {id} |-> d[i]]]

\* the copies GetByEmail may return (the map is scanned in any order)
InMemoryGetByEmail(d, email) == {d[i] : i \in EmailHolders(d, email)}

\* the orders in which one "for _, example := range r.data" can visit the
\* map: Go leaves the iteration order of a map unspecified and varies it
\* from one loop to the next
RangeOrders(d) ==
  {o \in [1..Cardinality(DOMAIN d) -> DOMAIN d] :
     \A i, j \in DOMAIN o : i # j => o[i] # o[j]}

\* List, for the order o its loop over the map takes
InMemoryList(d, o, limit, offset) ==
  LET examples == [i \in DOMAIN o |-> d[o[i]]]
      start == IF offset > Len(examples) THEN Len(examples) ELSE offset
      end == IF start + limit > Len(examples) THEN Len(examples) ELSE start + limit
  IN  IF start >= end THEN <<>> ELSE SubSeq(examples, start + 1, end)

InMemoryCount(d) == Cardinality(DOMAIN d)

\* a repository that keeps and hands out the pointer itself
CopyOf_Shared(h, a) == [heap |-> h, ref |-> a]

\* exampleCopy := *example; &exampleCopy, on the heap h: a new struct with
\* the fields of the one at address a
CopyOf(h, a) == [heap |-> Append(h, h[a]), ref |-> Len(h) + 1]

\* the loop of List: one copy per element, in the order given
RECURSIVE CopyAll(_, _)
CopyAll(h, refs) ==
  IF refs = <<>> THEN [heap |-> h, refs |-> <<>>]
  ELSE LET c == CopyOf(h, Head(refs))
           rest == CopyAll(c.heap, Tail(refs))
       IN  [heap |-> rest.heap, refs |-> <<c.ref>> \o rest.refs]

\* what the reads of the repository return: the structs its map points to
Stored(h, m) == [i \in DOMAIN m |-> h[m[i]]]

\* ------------------------------------------------- PostgreSQL repository

\* t is the examples table (primary key id, unique email); each operator is
\* one statement sent through gorm and handleErrorWithContext on its error

\* gorm's Create: an INSERT, which the primary key or the unique index on
\* email rejects with a duplicate-key error
PostgresCreate(t, e) ==
  IF e.id \in DOMAIN t \/ EmailHolders(t, e.email) # {}
    THEN [err |-> "ErrExampleAlreadyExists", data |-> t]
    ELSE [err |-> "nil", data |-> Put(t, e)]

\* gorm's First: ErrRecordNotFound when no row matches
PostgresGetByID(t, id) ==
  IF id \notin DOMAIN t
    THEN [err |-> "ErrExampleNotFound", example |-> NoExample]
    ELSE [err |-> "nil", example |-> t[id]]

\* the row after gorm's Updates(example): the non-zero fields of the struct
\* are written, UpdatedAt was set to time.Now() before
PostgresUpdated(row, e) ==
  [id |-> row.id,
   name |-> IF e.name = <<>> THEN row.name ELSE e.name,
   email |-> IF e.email = <<>> THEN row.email ELSE e.email,
   age |-> IF e.age = 0 THEN row.age ELSE e.age,
   createdAt |-> e.createdAt,
   updatedAt |-> clock]

\* Update: an UPDATE ... WHERE id = ?; when no row matches, no row is
\* affected and gorm reports no error
PostgresUpdate(t, e) ==
  IF e.id \notin DOMAIN t
    THEN [err |-> "nil", data |-> t]
  ELSE IF EmailHolders(t, e.email) \ {e.id} # {}
    THEN [err |-> "ErrExampleAlreadyExists", data |-> t]
  ELSE [err |-> "nil", data |-> Put(t, PostgresUpdated(t[e.id], e))]

\* Delete: a DELETE ... WHERE id = ?; when no row matches, gorm reports no
\* error
PostgresDelete(t, id) ==
  [err |-> "nil", data |-> [i \in DOMAIN t \ {id} |-> t[i]]]

\* --------------------------------------------------------------- state

VARIABLES
  data,        \* InMemoryExampleRepository.data
  pc,          \* position of each request goroutine
  op,          \* operation the request runs
  req,         \* arguments of the request
  ent,         \* the request's local *domain.Example
  res,         \* error returned to the caller ("nil" on success)
  ctxDone,     \* the inbound request's context has been cancelled
  fetch,       \* GetExampleData goroutine of enrichExample
  enrich,      \* EnrichExample goroutine of enrichExample
  extData,     \* ExampleWithMetadata.ExternalData of the result
  enrichment,  \* ExampleWithMetadata.Enrichment of the result
  wrote,       \* ghost: "stored" once the request's insert has completed,
               \* "removed" once that record has been deleted again
  launched,    \* notification goroutines the request has started
  notif,       \* the detached notification goroutines
  canceled,    \* ghost: some notification call ended with context.Canceled
  ops,         \* operations started so far
  left,        \* time left before the deadline of the request's externalCtx
  blocked,     \* ghost: time the request has spent inside collaborator calls
  pager,       \* a caller that reads the repository page by page
  heap,        \* the Example structs allocated so far, by address
  slots,       \* r.data as the pointers it holds: id -> address
  held,        \* addresses of the structs a caller passed in or got back
  rows,        \* the examples table of the PostgreSQL repository
  pgret,       \* the last call of the PostgreSQL repository and its error
  twin,        \* the last call made on both repositories and its two errors
  web,         \* the HTTP request in progress: handler, use case, response
  bus,         \* the events handed to Dependencies.Producer, in order
  cons,        \* the RabbitMQConsumer, its loop goroutine and its context
  msgs,        \* the deliveries the broker has made, and those still queued
  settled,     \* the Ack and Reject calls made on the deliveries, in order
  mock,        \* the MockConsumer
  dial         \* the TestConnection call in progress

vars == <<data, pc, op, req, ent, res, ctxDone, fetch, enrich, extData,
          enrichment, wrote, launched, notif, canceled, ops, left, blocked,
          clock, pager, heap, slots, held, rows, pgret, twin, web, bus,
          cons, msgs, settled, mock, dial>>

\* the deadlines of the collaborator calls
timers == <<left, blocked>>

\* the pointers behind data, followed for the callers that keep them
pointers == <<heap, slots, held>>

\* the PostgreSQL repository and its caller
postgres == <<rows, pgret>>

NoCall == [call |-> "none", id |-> <<>>, err |-> "nil"]

NoTwin == [call |-> "none", mem |-> "nil", pg |-> "nil"]

\* a nil error, as the handler returns it to echo
NoError == [type |-> "nil", code |-> "nil", status |-> 0]

NoWeb == [stage |-> "idle", operation |-> "none", input |-> "none",
          err |-> "nil", returned |-> NoError, status |-> 0]

\* what the last Start or Stop call of a consumer returned
NoReturn == [call |-> "none", err |-> "nil"]

\* the nil error of an event handler, and an error with its text
NoFailure == [failed |-> FALSE, text |-> <<>>]

Failure(text) == [failed |-> TRUE, text |-> text]

NoDelivery == [tag |-> 0, body |-> "none", result |-> NoFailure]

\* NewRabbitMQConsumer: connection and channel are open, stopChan is made
\* here and nowhere else, isRunning is false and no goroutine runs
NewRabbitMQConsumer ==
  [isRunning |-> FALSE, mu |-> "free", loop |-> "none", stopChan |-> "open",
   channel |-> "open", ctx |-> "none", delivery |-> NoDelivery,
   returned |-> NoReturn]

NewMockConsumer == [isRunning |-> FALSE, returned |-> NoReturn]

\* the nil error of TestConnection
NoDialError == [failed |-> FALSE, attempts |-> 0, wraps |-> "nil"]

NoDial == [pc |-> "idle", maxRetries |-> 0, i |-> 0, conn |-> 0, err |-> "nil",
           attempts |-> 0, sleeps |-> 0, last |-> "nil",
           returned |-> [conn |-> 0, err |-> NoDialError]]

\* what stands outside the core: the caller that drives both repositories
\* the HTTP transport, the message producer and consumers, and the
\* database connection
consumer == <<cons, msgs, settled, mock>>

outer == <<twin, web, bus, consumer, dial>>

besideTwin == <<web, bus, consumer, dial>>

besideWeb == <<twin, bus, consumer, dial>>

besideConsumer == <<twin, web, bus, dial>>

besideDial == <<twin, web, bus, consumer>>

\* the callers of the repository that stand outside the request handlers
bystanders == <<pager, pointers, postgres, outer>>

\* state no request handler writes
aside == <<clock, bystanders>>

NoPager == [state |-> "idle", limit |-> 0, offset |-> 0, total |-> 0, got |-> <<>>]

locals == <<fetch, enrich, extData, enrichment>>

\* the state of the request handlers
handlers == <<pc, op, req, ent, res, ctxDone, locals, wrote, launched, notif,
              canceled, ops, timers>>

\* the state of the earlier sections
core == <<data, handlers, clock, pager, pointers, postgres>>

Slots == 1..MaxNotify

NoNotif == [state |-> "free", id |-> <<>>, email |-> <<>>, owner |-> 0,
            parent |-> "none", written |-> "no", left |-> 0]

FreeSlots == {s \in Slots : notif[s].state = "free"}

\* a record an earlier CreateExample("Al", "abc@x.io", 30) has stored
Seed == NewExample(generateExampleID(NameAl, EmailX), NameAl, EmailX, 30)

\* the repository is empty after construction, or holds what an earlier
\* request has stored
Init ==
  /\ clock = 0
  /\ pager = NoPager
  /\ twin = NoTwin
  /\ web = NoWeb
  /\ bus = <<>>
  /\ cons = NewRabbitMQConsumer
  /\ msgs = [queue |-> <<>>, tags |-> 0]
  /\ settled = <<>>
  /\ mock = NewMockConsumer
  /\ dial = NoDial
  /\ pgret = NoCall
  /\ left = [p \in Procs |-> 0]
  /\ blocked = [p \in Procs |-> 0]
  /\ data \in {<<>>, Put(<<>>, Seed)}
  /\ heap = IF data = <<>> THEN <<>> ELSE <<Seed>>
  /\ slots = [i \in DOMAIN data |-> 1]
  /\ held = {}
  /\ rows = data
  /\ pc = [p \in Procs |-> "idle"]
  /\ op = [p \in Procs |-> "none"]
  /\ req = [p \in Procs |-> NoExample]
  /\ ent = [p \in Procs |-> NoExample]
  /\ res = [p \in Procs |-> "pending"]
  /\ ctxDone = [p \in Procs |-> FALSE]
  /\ fetch = [p \in Procs |-> "idle"]
  /\ enrich = [p \in Procs |-> "idle"]
  /\ extData = [p \in Procs |-> "nil"]
  /\ enrichment = [p \in Procs |-> "nil"]
  /\ wrote = [p \in Procs |-> "no"]
  /\ launched = [p \in Procs |-> 0]
  /\ notif = [s \in Slots |-> NoNotif]
  /\ canceled = FALSE
  /\ ops = 0

\* ids a caller can name: the stored ones and one that may be missing
KnownIDs == DOMAIN data \cup {<<"r", "1">>}

\* the request returns err to its caller
Return(p, err) ==
  /\ pc' = [pc EXCEPT ![p] = "done"]
  /\ res' = [res EXCEPT ![p] = err]

\* the next request is served by the lowest idle goroutine
Begin(p, o, r) ==
  /\ pc[p] = "idle"
  /\ \A q \in Procs : q < p => pc[q] # "idle"
  /\ ops < MaxOps
  /\ ops' = ops + 1
  /\ op' = [op EXCEPT ![p] = o]
  /\ req' = [req EXCEPT ![p] = r]

\* -------------------------------------------- direct repository callers

CallRepoCreate(p) ==
  \E email \in DirectEmails :
   \E e \in HeldExamples(DirectID(p), NameAl, email, 30) :
    /\ Begin(p, "repo.Create", e)
    /\ pc' = [pc EXCEPT ![p] = "repo_create"]
    /\ UNCHANGED <<data, ent, res, ctxDone, locals, wrote, launched, notif, canceled,
                   timers, aside>>

RepoCreate(p) ==
  /\ pc[p] = "repo_create"
  /\ LET r == InMemoryCreate(data, req[p])
     IN  /\ data' = r.data
         /\ wrote' = [wrote EXCEPT ![p] = IF r.err = "nil" THEN "stored" ELSE "no"]
         /\ Return(p, r.err)
  /\ UNCHANGED <<op, req, ent, ctxDone, locals, launched, notif, ops,
                 canceled, timers, aside>>

CallRepoUpdate(p) ==
  \E id \in KnownIDs, email \in DirectEmails :
   \E e \in HeldExamples(id, NameBob, email, 30) :
    /\ Begin(p, "repo.Update", e)
    /\ pc' = [pc EXCEPT ![p] = "repo_update"]
    /\ UNCHANGED <<data, ent, res, ctxDone, locals, wrote, launched, notif, canceled,
                   timers, aside>>

RepoUpdate(p) ==
  /\ pc[p] = "repo_update"
  /\ LET r == InMemoryUpdate(data, req[p])
     IN  /\ data' = r.data
         /\ Return(p, r.err)
  /\ UNCHANGED <<op, req, ent, ctxDone, locals, wrote, launched, notif, ops,
                 canceled, timers, aside>>

\* ghost: a Delete of id marks the inserts of id it has undone
RemovedNotif(id) ==
  [s \in Slots |->
     IF notif[s].state = "spawned" /\ notif[s].id = id
       THEN [notif[s] EXCEPT !.written = "removed"]
       ELSE notif[s]]

RemovedWrote(id) ==
  [q \in Procs |->
     IF wrote[q] = "stored" /\ ent[q].id = id /\ pc[q] # "done"
       THEN "removed"
       ELSE wrote[q]]

CallRepoDelete(p) ==
  \E id \in KnownIDs :
    /\ Begin(p, "repo.Delete", [NoExample EXCEPT !.id = id])
    /\ pc' = [pc EXCEPT ![p] = "repo_delete"]
    /\ UNCHANGED <<data, ent, res, ctxDone, locals, wrote, launched, notif, canceled,
                   timers, aside>>

RepoDelete(p) ==
  /\ pc[p] = "repo_delete"
  /\ LET r == InMemoryDelete(data, req[p].id)
     IN  /\ data' = r.data
         /\ notif' = IF r.err = "nil" THEN RemovedNotif(req[p].id) ELSE notif
         /\ wrote' = IF r.err = "nil" THEN RemovedWrote(req[p].id) ELSE wrote
         /\ Return(p, r.err)
  /\ UNCHANGED <<op, req, ent, ctxDone, locals, launched, ops,
                 canceled, timers, aside>>

\* ------------------------------------------------------ business service

\* exampleService.CreateExample up to its first repository call: shape
\* validation, business rules, id generation, entity construction
SvcCreateEnter(p, r) ==
  LET shape == validateInput(r.name, r.email, r.age)
      rules == ValidateExampleBusinessRules(r.name, r.email, r.age)
      id == generateExampleID(r.name, r.email)
      built == validateExample(r.name, r.email, r.age)
  IN  IF shape # "nil" THEN Return(p, shape) /\ UNCHANGED ent
      ELSE IF rules # "nil" THEN Return(p, "ErrorCodeBusinessLogicFail") /\ UNCHANGED ent
      ELSE IF built # "nil" THEN Return(p, "ErrorCodeInvalidInput") /\ UNCHANGED ent
      ELSE /\ ent' = [ent EXCEPT ![p] = NewExample(id, r.name, r.email, r.age)]
           /\ pc' = [pc EXCEPT ![p] = "svc_create_check"]
           /\ UNCHANGED res

\* exampleService.CreateExample called by a user of the service
CallSvcCreate(p) ==
  \E r \in Requests :
    /\ Begin(p, "svc.CreateExample", r)
    /\ SvcCreateEnter(p, r)
    /\ UNCHANGED <<data, ctxDone, locals, wrote, launched, notif, canceled,
                   timers, aside>>

\* CreateExample called with the inputs that probe the field rules
CallSvcCreateRules(p) ==
  \E r \in RuleRequests :
    /\ Begin(p, "svc.CreateExample", r)
    /\ SvcCreateEnter(p, r)
    /\ UNCHANGED <<data, ctxDone, locals, wrote, launched, notif, canceled,
                   timers, aside>>

\* the pre-check: s.repo.GetByEmail(ctx, email) with err == nil
SvcCreateCheck(p) ==
  /\ pc[p] = "svc_create_check"
  /\ IF InMemoryGetByEmail(data, ent[p].email) # {}
       THEN Return(p, "ErrorCodeExampleAlreadyExists")
       ELSE pc' = [pc EXCEPT ![p] = "svc_create_save"] /\ UNCHANGED res
  /\ UNCHANGED <<data, op, req, ent, ctxDone, locals, wrote, launched, notif, ops,
                 canceled, timers, aside>>

\* where the caller of the service continues once it holds the new entity
AfterCreate(o) ==
  CASE o = "ValidateAndCreateExample" -> "enrich_start"
    [] o = "CreateExample" -> "uc_notify"
    [] OTHER -> "done"

\* where the caller of the service continues once it holds the updated entity
AfterUpdate(o) == IF o = "UpdateExample" THEN "enrich_start" ELSE "done"

\* the service returns the entity without error
SvcReturn(p, next) ==
  /\ pc' = [pc EXCEPT ![p] = next]
  /\ res' = [res EXCEPT ![p] = IF next = "done" THEN "nil" ELSE res[p]]

\* a save that logs the repository's error and returns the entity all the same
SvcCreateSave_ErrorIgnored(p) ==
  /\ pc[p] = "svc_create_save"
  /\ LET r == InMemoryCreate(data, ent[p])
     IN  /\ data' = r.data
         /\ wrote' = [wrote EXCEPT ![p] = IF r.err = "nil" THEN "stored" ELSE "no"]
         /\ SvcReturn(p, AfterCreate(op[p]))
  /\ UNCHANGED <<op, req, ent, ctxDone, locals, launched, notif, ops,
                 canceled, timers, aside>>

\* s.repo.Create(ctx, example) and the mapping of its error
SvcCreateSave(p) ==
  /\ pc[p] = "svc_create_save"
  /\ LET r == InMemoryCreate(data, ent[p])
     IN  /\ data' = r.data
         /\ wrote' = [wrote EXCEPT ![p] = IF r.err = "nil" THEN "stored" ELSE "no"]
         /\ IF r.err # "nil"
              THEN Return(p, mapRepositoryError(r.err))
              ELSE SvcReturn(p, AfterCreate(op[p]))
  /\ UNCHANGED <<op, req, ent, ctxDone, locals, launched, notif, ops,
                 canceled, timers, aside>>

\* exampleService.GetExampleByID
SvcGet(p) ==
  /\ pc[p] = "svc_get"
  /\ IF req[p].id = <<>> THEN Return(p, "ErrorCodeInvalidID") /\ UNCHANGED ent
     ELSE IF req[p].id \notin DOMAIN data
       THEN Return(p, mapRepositoryError("ErrExampleNotFound")) /\ UNCHANGED ent
     ELSE /\ ent' = [ent EXCEPT ![p] = data[req[p].id]]
          /\ pc' = [pc EXCEPT ![p] = "enrich_start"]
          /\ UNCHANGED res
  /\ UNCHANGED <<data, op, req, ctxDone, locals, wrote, launched, notif, ops,
                 canceled, timers, aside>>

\* exampleService.UpdateExample up to its first repository call
SvcUpdateEnter(p, r) ==
  LET shape == IF r.id = <<>> THEN "ErrorCodeInvalidID"
               ELSE validateInput(r.name, r.email, r.age)
      rules == ValidateExampleBusinessRules(r.name, r.email, r.age)
  IN  IF shape # "nil" THEN Return(p, shape)
      ELSE IF rules # "nil" THEN Return(p, "ErrorCodeBusinessLogicFail")
      ELSE pc' = [pc EXCEPT ![p] = "svc_update_get"] /\ UNCHANGED res

\* exampleService.UpdateExample called by a user of the service
CallSvcUpdate(p) ==
  \E id \in KnownIDs, r \in UpdateRequests :
    /\ Begin(p, "svc.UpdateExample", [r EXCEPT !.id = id])
    /\ SvcUpdateEnter(p, [r EXCEPT !.id = id])
    /\ UNCHANGED <<data, ent, ctxDone, locals, wrote, launched, notif, canceled,
                   timers, aside>>

\* UpdateExample called with the inputs that probe the field rules
CallSvcUpdateRules(p) ==
  \E id \in KnownIDs, r \in RuleRequests :
    /\ Begin(p, "svc.UpdateExample", [r EXCEPT !.id = id])
    /\ SvcUpdateEnter(p, [r EXCEPT !.id = id])
    /\ UNCHANGED <<data, ent, ctxDone, locals, wrote, launched, notif, canceled,
                   timers, aside>>

\* getExistingExample
SvcUpdateGet(p) ==
  /\ pc[p] = "svc_update_get"
  /\ IF req[p].id \notin DOMAIN data
       THEN Return(p, mapRepositoryError("ErrExampleNotFound")) /\ UNCHANGED ent
       ELSE /\ ent' = [ent EXCEPT ![p] = data[req[p].id]]
            /\ pc' = [pc EXCEPT ![p] = "svc_update_check"]
            /\ UNCHANGED res
  /\ UNCHANGED <<data, op, req, ctxDone, locals, wrote, launched, notif, ops,
                 canceled, timers, aside>>

\* checkEmailConflict
SvcUpdateCheck(p) ==
  /\ pc[p] = "svc_update_check"
  /\ IF /\ ent[p].email # req[p].email
        /\ \E existing \in InMemoryGetByEmail(data, req[p].email) :
             existing.id # ent[p].id
       THEN Return(p, "ErrorCodeExampleAlreadyExists")
       ELSE pc' = [pc EXCEPT ![p] = "svc_update_save"] /\ UNCHANGED res
  /\ UNCHANGED <<data, op, req, ent, ctxDone, locals, wrote, launched, notif, ops,
                 canceled, timers, aside>>

\* updateAndSaveExample: Example.Update on the local copy, then repo.Update
SvcUpdateSave(p) ==
  /\ pc[p] = "svc_update_save"
  /\ IF validateExample(req[p].name, req[p].email, req[p].age) # "nil"
       THEN Return(p, "ErrorCodeInvalidInput") /\ UNCHANGED <<data, ent>>
       ELSE LET e == ExampleUpdate(ent[p], req[p].name, req[p].email, req[p].age)
                r == InMemoryUpdate(data, e)
            IN  /\ ent' = [ent EXCEPT ![p] = e]
                /\ data' = r.data
                /\ IF r.err # "nil"
                     THEN Return(p, mapRepositoryError(r.err))
                     ELSE SvcReturn(p, AfterUpdate(op[p]))
  /\ UNCHANGED <<op, req, ctxDone, locals, wrote, launched, notif, ops,
                 canceled, timers, aside>>

\* exampleService.DeleteExample called by a user of the service
CallSvcDelete(p) ==
  \E id \in KnownIDs :
    /\ Begin(p, "svc.DeleteExample", [NoExample EXCEPT !.id = id])
    /\ pc' = [pc EXCEPT ![p] = "svc_delete_get"]
    /\ UNCHANGED <<data, ent, res, ctxDone, locals, wrote, launched, notif, canceled,
                   timers, aside>>

\* exampleService.DeleteExample: the existence check
SvcDeleteGet(p) ==
  /\ pc[p] = "svc_delete_get"
  /\ IF req[p].id = <<>> THEN Return(p, "ErrorCodeInvalidID")
     ELSE IF req[p].id \notin DOMAIN data
       THEN Return(p, mapRepositoryError("ErrExampleNotFound"))
     ELSE pc' = [pc EXCEPT ![p] = "svc_delete_del"] /\ UNCHANGED res
  /\ UNCHANGED <<data, op, req, ent, ctxDone, locals, wrote, launched, notif, ops,
                 canceled, timers, aside>>

\* exampleService.DeleteExample: s.repo.Delete
SvcDeleteDel(p) ==
  /\ pc[p] = "svc_delete_del"
  /\ LET r == InMemoryDelete(data, req[p].id)
     IN  /\ data' = r.data
         /\ notif' = IF r.err = "nil" THEN RemovedNotif(req[p].id) ELSE notif
         /\ wrote' = IF r.err = "nil" THEN RemovedWrote(req[p].id) ELSE wrote
         /\ Return(p, mapRepositoryError(r.err))
  /\ UNCHANGED <<op, req, ent, ctxDone, locals, launched, ops,
                 canceled, timers, aside>>

\* ------------------------------------------------------------- use case

CreateOps == {"CreateExample", "ValidateAndCreateExample"}

\* requests that may still start a notification goroutine
Creating == {q \in Procs : op[q] \in CreateOps /\ pc[q] \notin {"idle", "done"}}

\* exampleUseCase.CreateExample: the call into the service
CallCreateExample(p) ==
  \E r \in Requests :
    /\ Cardinality(FreeSlots) > Cardinality(Creating)
    /\ Begin(p, "CreateExample", r)
    /\ SvcCreateEnter(p, r)
    /\ UNCHANGED <<data, ctxDone, locals, wrote, launched, notif, canceled,
                   timers, aside>>

\* a context whose deadline is twice the configured timeout away
externalCtxTimeout_Twice == Timeout + Timeout

\* the time context.WithTimeout(ctx, uc.timeout) gives the collaborator
\* calls of a request
externalCtxTimeout == Timeout

\* a goroutine whose deadline is twice the configured timeout away
notifyCtxTimeout_Twice == Timeout + Timeout

\* the time context.WithTimeout(context.Background(), uc.timeout) gives the
\* notification call
notifyCtxTimeout == Timeout

\* exampleUseCase.ValidateAndCreateExample: the call of ValidateExample
CallValidateAndCreate(p) ==
  \E r \in ValidateRequests :
    /\ Cardinality(FreeSlots) > Cardinality(Creating)
    /\ Begin(p, "ValidateAndCreateExample", r)
    /\ pc' = [pc EXCEPT ![p] = "uc_validate"]
    /\ left' = [left EXCEPT ![p] = externalCtxTimeout]
    /\ UNCHANGED <<data, ent, res, ctxDone, locals, wrote, launched, notif, canceled,
                   blocked, aside>>

\* a check that lets a rejected example pass
validateOutcome_RejectionIgnored(answer) ==
  IF answer = "error" THEN "ErrExternalService" ELSE "nil"

\* what lines 254-269 make of (isValid, err): an error fails the operation
\* with ErrExternalService, a false with ErrUseCaseValidation
validateOutcome(answer) ==
  CASE answer = "error" -> "ErrExternalService"
    [] answer = "false" -> "ErrUseCaseValidation"
    [] OTHER -> "nil"

\* ValidateAndCreateExample once ValidateExample has answered
ExtValidateWith(p, answer) ==
  /\ pc[p] = "uc_validate"
  /\ IF validateOutcome(answer) # "nil"
       THEN Return(p, validateOutcome(answer)) /\ UNCHANGED ent
       ELSE SvcCreateEnter(p, req[p])
  /\ left' = [left EXCEPT ![p] = 0]
  /\ UNCHANGED <<data, op, req, ctxDone, locals, wrote, launched, notif, ops, canceled,
                 blocked, aside>>

\* ValidateExample answers: true, false, or an error (unavailable, timeout)
ExtValidate(p) == \E answer \in {"true", "false", "error"} : ExtValidateWith(p, answer)

CallGetExample(p) ==
  \E id \in KnownIDs :
    /\ Begin(p, "GetExample", [NoExample EXCEPT !.id = id])
    /\ pc' = [pc EXCEPT ![p] = "svc_get"]
    /\ UNCHANGED <<data, ent, res, ctxDone, locals, wrote, launched, notif, canceled,
                   timers, aside>>

CallUpdateExample(p) ==
  \E id \in KnownIDs, r \in UpdateRequests :
    /\ Begin(p, "UpdateExample", [r EXCEPT !.id = id])
    /\ SvcUpdateEnter(p, [r EXCEPT !.id = id])
    /\ UNCHANGED <<data, ent, ctxDone, locals, wrote, launched, notif, canceled,
                   timers, aside>>

CallDeleteExample(p) ==
  \E id \in KnownIDs :
    /\ Begin(p, "DeleteExample", [NoExample EXCEPT !.id = id])
    /\ pc' = [pc EXCEPT ![p] = "svc_delete_get"]
    /\ UNCHANGED <<data, ent, res, ctxDone, locals, wrote, launched, notif, canceled,
                   timers, aside>>

\* enrichExample: wg.Add(2) and the two go statements
EnrichStart(p) ==
  /\ pc[p] = "enrich_start"
  /\ fetch' = [fetch EXCEPT ![p] = "running"]
  /\ enrich' = [enrich EXCEPT ![p] = "running"]
  /\ pc' = [pc EXCEPT ![p] = "enrich_wait"]
  /\ left' = [left EXCEPT ![p] = externalCtxTimeout]
  /\ UNCHANGED <<data, op, req, ent, res, ctxDone, extData, enrichment, wrote,
                 launched, notif, ops, canceled, blocked, aside>>

\* the first goroutine: GetExampleData returns, then wg.Done
FetchDone(p) ==
  /\ fetch[p] = "running"
  /\ \E outcome \in {"ok", "fail"} : fetch' = [fetch EXCEPT ![p] = outcome]
  /\ UNCHANGED <<data, pc, op, req, ent, res, ctxDone, enrich, extData,
                 enrichment, wrote, launched, notif, ops,
                 canceled, timers, aside>>

\* the second goroutine: EnrichExample returns, then wg.Done
EnrichDone(p) ==
  /\ enrich[p] = "running"
  /\ \E outcome \in {"ok", "fail"} : enrich' = [enrich EXCEPT ![p] = outcome]
  /\ UNCHANGED <<data, pc, op, req, ent, res, ctxDone, fetch, extData,
                 enrichment, wrote, launched, notif, ops,
                 canceled, timers, aside>>

\* a wait group armed with wg.Add(1): the first Done releases the waiter
WaitReturns_AddOne(f, e) == f # "running" \/ e # "running"

\* wg.Wait() returns once the counter set by wg.Add(2) is back to zero
WaitReturns(f, e) == f # "running" /\ e # "running"

\* an attach that gives up on the whole enrichment when either call failed
AttachExternal_AllOrNothing(f, e) == IF f = "ok" /\ e = "ok" THEN "data" ELSE "nil"

\* what lines 339-344 attach, given how the two calls ended
AttachExternal(f, e) == IF f = "ok" THEN "data" ELSE "nil"
AttachEnrichment(f, e) == IF e = "ok" THEN "data" ELSE "nil"

\* an enrichExample that reports the failure of either call
enrichExampleErr_Reported(f, e) ==
  IF f = "fail" \/ e = "fail" THEN "ErrExternalService" ELSE "nil"

\* the error enrichExample returns: always nil
enrichExampleErr(f, e) == "nil"

\* enrichExample from wg.Wait() to its return, and the caller's next step
EnrichJoin(p) ==
  /\ pc[p] = "enrich_wait"
  /\ WaitReturns(fetch[p], enrich[p])
  /\ IF enrichExampleErr(fetch[p], enrich[p]) # "nil"
       THEN \* ValidateAndCreateExample returns the bare entity, the other
            \* callers return the error
            /\ Return(p, IF op[p] = "ValidateAndCreateExample" THEN "nil"
                         ELSE enrichExampleErr(fetch[p], enrich[p]))
            /\ UNCHANGED <<extData, enrichment>>
       ELSE /\ extData' = [extData EXCEPT ![p] = AttachExternal(fetch[p], enrich[p])]
            /\ enrichment' =
                 [enrichment EXCEPT ![p] = AttachEnrichment(fetch[p], enrich[p])]
            /\ IF op[p] = "ValidateAndCreateExample"
                 THEN pc' = [pc EXCEPT ![p] = "uc_notify"] /\ UNCHANGED res
                 ELSE Return(p, "nil")
  /\ left' = [left EXCEPT ![p] = 0]
  /\ UNCHANGED <<data, op, req, ent, ctxDone, fetch, enrich, wrote, launched,
                 notif, ops, canceled, blocked, aside>>

\* a goroutine that derives its timeout context from the request's ctx
NotifyParent_RequestCtx(p) == "request"

\* the context the notification goroutine derives its timeout context from:
\* context.Background()
NotifyParent(p) == "background"

\* a create that calls NotifyExampleCreated inline and returns its error
UcNotify_Inline(p) ==
  /\ pc[p] = "uc_notify"
  /\ launched' = [launched EXCEPT ![p] = @ + 1]
  /\ \E o \in {"nil", "ErrExternalAPIUnavailable", "DeadlineExceeded"} : Return(p, o)
  /\ UNCHANGED <<data, op, req, ent, ctxDone, locals, wrote, notif, ops,
                 canceled, timers, aside>>

\* the go statement of CreateExample / ValidateAndCreateExample and the return
UcNotify(p) ==
  /\ pc[p] = "uc_notify"
  /\ LET s == CHOOSE t \in FreeSlots : \A u \in FreeSlots : t <= u
     IN  notif' = [notif EXCEPT ![s] =
                     [state |-> "spawned", id |-> ent[p].id,
                      email |-> ent[p].email, owner |-> p,
                      parent |-> NotifyParent(p), written |-> wrote[p],
                      left |-> 0]]
  /\ launched' = [launched EXCEPT ![p] = @ + 1]
  /\ Return(p, "nil")
  /\ UNCHANGED <<data, op, req, ent, ctxDone, locals, wrote, ops, canceled, timers, aside>>

\* ------------------------------------------- detached notification goroutine

\* the goroutine is scheduled and invokes NotifyExampleCreated
NotifyCall(s) ==
  /\ notif[s].state = "spawned"
  /\ notif' = [notif EXCEPT ![s].state = "calling", ![s].left = notifyCtxTimeout]
  /\ UNCHANGED <<data, pc, op, req, ent, res, ctxDone, locals, wrote, launched, ops,
                 canceled, timers, aside>>

\* how the call can end under notifyCtx
NotifyOutcomes(s) ==
  {"nil", "ErrExternalAPIUnavailable", "DeadlineExceeded"}
    \cup (IF notif[s].parent = "request" /\ ctxDone[notif[s].owner]
            THEN {"Canceled"} ELSE {})

\* NotifyExampleCreated returns, a failure is only logged, the goroutine ends
NotifyReturn(s) ==
  /\ notif[s].state = "calling"
  /\ \E o \in NotifyOutcomes(s) :
       canceled' = (canceled \/ o = "Canceled")
  /\ notif' = [notif EXCEPT ![s] = NoNotif]
  /\ UNCHANGED <<data, pc, op, req, ent, res, ctxDone, locals, wrote, launched, ops, timers, aside>>

\* ------------------------------------------------- paging through List

\* the caller reads Count() and sets out to read every page of size limit
PageStart ==
  \E limit \in 1..MaxLimit :
    /\ pager.state = "idle"
    /\ \A p \in Procs : pc[p] \in {"idle", "done"}
    /\ pager' = [state |-> IF InMemoryCount(data) = 0 THEN "done" ELSE "paging",
                 limit |-> limit, offset |-> 0, total |-> InMemoryCount(data),
                 got |-> <<>>]
    /\ UNCHANGED <<data, handlers, clock, pointers, postgres, outer>>

\* List(limit, offset) for the next offset, until the offsets below the
\* count are used up
PageNext ==
  \E o \in RangeOrders(data) :
    LET page == InMemoryList(data, o, pager.limit, pager.offset)
        next == pager.offset + pager.limit
    IN  /\ pager.state = "paging"
        /\ pager' = [pager EXCEPT
                       !.got = @ \o [i \in DOMAIN page |-> page[i].id],
                       !.offset = next,
                       !.state = IF next >= pager.total THEN "done" ELSE "paging"]
        /\ UNCHANGED <<data, handlers, clock, pointers, postgres, outer>>

\* ------------------------------------- callers that keep their pointers

\* the caller builds an Example with NewExample
AliasNew ==
  \E email \in DirectEmails :
    /\ Len(heap) < MaxHeap
    /\ heap' = Append(heap, NewExample(DirectID(1), NameAl, email, 30))
    /\ held' = held \cup {Len(heap) + 1}
    /\ UNCHANGED <<data, slots, handlers, clock, pager, postgres, outer>>

\* Create(ctx, example) with a pointer the caller holds
AliasCreate(a) ==
  LET r == InMemoryCreate(data, heap[a])
      c == CopyOf(heap, a)
  IN  /\ a \in held
      /\ Len(heap) < MaxHeap
      /\ r.err = "nil"
      /\ heap' = c.heap
      /\ slots' = [i \in DOMAIN slots \cup {heap[a].id} |->
                     IF i = heap[a].id THEN c.ref ELSE slots[i]]
      /\ data' = Stored(heap', slots')
      /\ UNCHANGED <<held, handlers, clock, pager, postgres, outer>>

\* Update(ctx, example) with a pointer the caller holds
AliasUpdate(a) ==
  LET r == InMemoryUpdate(data, heap[a])
      c == CopyOf(heap, a)
  IN  /\ a \in held
      /\ Len(heap) < MaxHeap
      /\ r.err = "nil"
      /\ heap' = c.heap
      /\ slots' = [slots EXCEPT ![heap[a].id] = c.ref]
      /\ data' = Stored(heap', slots')
      /\ UNCHANGED <<held, handlers, clock, pager, postgres, outer>>

\* GetByID(ctx, id): the caller keeps the pointer it gets
AliasGetByID(id) ==
  LET c == CopyOf(heap, slots[id])
  IN  /\ id \in DOMAIN slots
      /\ Len(heap) < MaxHeap
      /\ heap' = c.heap
      /\ held' = held \cup {c.ref}
      /\ UNCHANGED <<data, slots, handlers, clock, pager, postgres, outer>>

\* GetByEmail(ctx, email): the caller keeps the pointer it gets
AliasGetByEmail(email) ==
  \E id \in EmailHolders(data, email) :
    LET c == CopyOf(heap, slots[id])
    IN  /\ Len(heap) < MaxHeap
        /\ heap' = c.heap
        /\ held' = held \cup {c.ref}
        /\ UNCHANGED <<data, slots, handlers, clock, pager, postgres, outer>>

\* List(ctx, limit, 0): the caller keeps the pointers of the page
AliasList(limit) ==
  \E o \in RangeOrders(data) :
    LET all == CopyAll(heap, [i \in DOMAIN o |-> slots[o[i]]])
        end == IF limit > Len(all.refs) THEN Len(all.refs) ELSE limit
    IN  /\ Len(all.heap) <= MaxHeap
        /\ Len(o) > 0
        /\ heap' = all.heap
        /\ held' = held \cup {all.refs[i] : i \in 1..end}
        /\ UNCHANGED <<data, slots, handlers, clock, pager, postgres, outer>>

\* the caller writes a field of a struct it holds: example.Name = "Bob"
AliasMutate(a) ==
  /\ a \in held
  /\ heap[a].name # NameBob
  /\ heap' = [heap EXCEPT ![a].name = NameBob]
  /\ data' = Stored(heap', slots)
  /\ UNCHANGED <<slots, held, handlers, clock, pager, postgres, outer>>

\* gorm's First on the email: ErrRecordNotFound when no row matches
PostgresGetByEmail(t, email) ==
  IF EmailHolders(t, email) = {}
    THEN [err |-> "ErrExampleNotFound", example |-> NoExample]
    ELSE [err |-> "nil", example |-> t[CHOOSE i \in EmailHolders(t, email) : TRUE]]

\* the orders ORDER BY created_at DESC can give the rows: rows of equal
\* created_at come in any order
PostgresOrders(t) ==
  {o \in RangeOrders(t) :
     \A i, j \in DOMAIN o : i < j => t[o[i]].createdAt >= t[o[j]].createdAt}

\* List: ORDER BY created_at DESC LIMIT limit OFFSET offset, for the order o
PostgresList(t, o, limit, offset) ==
  [err |-> "nil",
   examples |-> [i \in 1..(IF Len(o) - offset < 0 THEN 0
                            ELSE IF Len(o) - offset < limit THEN Len(o) - offset
                            ELSE limit) |-> t[o[offset + i]]]]

\* Count: SELECT count(*)
PostgresCount(t) == [err |-> "nil", count |-> Cardinality(DOMAIN t)]

\* ------------------------------------- caller of the PostgreSQL repository

\* the structs the caller passes: ids r1 and r2, built as HeldExamples
PgExamples ==
  UNION {HeldExamples(DirectID(i), n, email, 30) :
           i \in 1..2, n \in {NameAl, NameBob}, email \in DirectEmails}

PgCreate(e) ==
  LET r == PostgresCreate(rows, e)
  IN  /\ rows' = r.data
      /\ pgret' = [call |-> "Create", id |-> e.id, err |-> r.err]
      /\ UNCHANGED <<data, handlers, clock, pager, pointers, outer>>

PgUpdate(e) ==
  LET r == PostgresUpdate(rows, e)
  IN  /\ rows' = r.data
      /\ pgret' = [call |-> "Update", id |-> e.id, err |-> r.err]
      /\ UNCHANGED <<data, handlers, clock, pager, pointers, outer>>

PgDelete(id) ==
  LET r == PostgresDelete(rows, id)
  IN  /\ rows' = r.data
      /\ pgret' = [call |-> "Delete", id |-> id, err |-> r.err]
      /\ UNCHANGED <<data, handlers, clock, pager, pointers, outer>>

\* ------------------------- business service over the PostgreSQL repository

\* the faults a statement sent to the database can meet, as handleError
\* names them
Faults == {"ErrDatabaseConnection", "ErrQueryTimeout"}

\* what a repository call returns: the fault it meets, or else its own result
Faulty(fault, r) == IF fault = "none" THEN r ELSE [r EXCEPT !.err = fault]

\* the state of a request the steps below leave alone
PgSvcFrame == <<data, op, req, ctxDone, locals, wrote, launched, notif, ops,
                canceled, timers, clock, pager, pointers, pgret, outer>>

\* exampleService.CreateExample with s.repo a PostgreSQLExampleRepository,
\* up to its first repository call
CallPgSvcCreate(p) ==
  \E r \in Requests :
    LET shape == validateInput(r.name, r.email, r.age)
        rules == ValidateExampleBusinessRules(r.name, r.email, r.age)
        id == generateExampleID(r.name, r.email)
        built == validateExample(r.name, r.email, r.age)
    IN  /\ Begin(p, "svc.CreateExample", r)
        /\ IF shape # "nil" THEN Return(p, shape) /\ UNCHANGED ent
           ELSE IF rules # "nil"
             THEN Return(p, "ErrorCodeBusinessLogicFail") /\ UNCHANGED ent
           ELSE IF built # "nil"
             THEN Return(p, "ErrorCodeInvalidInput") /\ UNCHANGED ent
           ELSE /\ ent' = [ent EXCEPT ![p] = NewExample(id, r.name, r.email, r.age)]
                /\ pc' = [pc EXCEPT ![p] = "pgsvc_create_check"]
                /\ UNCHANGED res
        /\ UNCHANGED <<data, ctxDone, locals, wrote, launched, notif, canceled,
                       timers, aside>>

\* the pre-check: s.repo.GetByEmail(ctx, email) with err == nil
PgSvcCreateCheckWith(p, fault) ==
  /\ pc[p] = "pgsvc_create_check"
  /\ LET r == Faulty(fault, PostgresGetByEmail(rows, ent[p].email))
     IN  IF r.err = "nil"
           THEN Return(p, "ErrorCodeExampleAlreadyExists")
           ELSE pc' = [pc EXCEPT ![p] = "pgsvc_create_save"] /\ UNCHANGED res
  /\ UNCHANGED <<PgSvcFrame, ent, rows>>

\* s.repo.Create(ctx, example) and the mapping of its error
PgSvcCreateSaveWith(p, fault) ==
  /\ pc[p] = "pgsvc_create_save"
  /\ LET r == IF fault = "none" THEN PostgresCreate(rows, ent[p])
              ELSE [err |-> fault, data |-> rows]
     IN  /\ rows' = r.data
         /\ Return(p, mapRepositoryError(r.err))
  /\ UNCHANGED <<PgSvcFrame, ent>>

\* exampleService.UpdateExample up to its first repository call
CallPgSvcUpdate(p) ==
  \E id \in DOMAIN rows \cup {<<"r", "1">>}, r \in UpdateRequests :
    LET shape == validateInput(r.name, r.email, r.age)
        rules == ValidateExampleBusinessRules(r.name, r.email, r.age)
    IN  /\ Begin(p, "svc.UpdateExample", [r EXCEPT !.id = id])
        /\ IF shape # "nil" THEN Return(p, shape)
           ELSE IF rules # "nil" THEN Return(p, "ErrorCodeBusinessLogicFail")
           ELSE pc' = [pc EXCEPT ![p] = "pgsvc_update_get"] /\ UNCHANGED res
        /\ UNCHANGED <<data, ent, ctxDone, locals, wrote, launched, notif, canceled,
                       timers, aside>>

\* getExistingExample
PgSvcUpdateGetWith(p, fault) ==
  /\ pc[p] = "pgsvc_update_get"
  /\ LET r == Faulty(fault, PostgresGetByID(rows, req[p].id))
     IN  IF r.err # "nil"
           THEN Return(p, mapRepositoryError(r.err)) /\ UNCHANGED ent
           ELSE /\ ent' = [ent EXCEPT ![p] = r.example]
                /\ pc' = [pc EXCEPT ![p] = "pgsvc_update_check"]
                /\ UNCHANGED res
  /\ UNCHANGED <<PgSvcFrame, rows>>

\* checkEmailConflict: GetByEmail is called only when the email changes
PgSvcUpdateCheckWith(p, fault) ==
  /\ pc[p] = "pgsvc_update_check"
  /\ fault # "none" => ent[p].email # req[p].email
  /\ LET r == Faulty(fault, PostgresGetByEmail(rows, req[p].email))
     IN  IF ent[p].email # req[p].email /\ r.err = "nil"
            /\ r.example.id # ent[p].id
           THEN Return(p, "ErrorCodeExampleAlreadyExists")
           ELSE pc' = [pc EXCEPT ![p] = "pgsvc_update_save"] /\ UNCHANGED res
  /\ UNCHANGED <<PgSvcFrame, ent, rows>>

\* updateAndSaveExample: Example.Update on the local struct, then
\* repo.Update, which is called only when Example.Update accepts the fields
PgSvcUpdateSaveWith(p, fault) ==
  /\ pc[p] = "pgsvc_update_save"
  /\ IF validateExample(req[p].name, req[p].email, req[p].age) # "nil"
       THEN /\ fault = "none"
            /\ Return(p, "ErrorCodeInvalidInput")
            /\ UNCHANGED <<rows, ent>>
       ELSE LET u == ExampleUpdate(ent[p], req[p].name, req[p].email, req[p].age)
                r == IF fault = "none" THEN PostgresUpdate(rows, u)
                     ELSE [err |-> fault, data |-> rows]
            IN  /\ ent' = [ent EXCEPT ![p] = [u EXCEPT !.updatedAt = clock]]
                /\ rows' = r.data
                /\ Return(p, mapRepositoryError(r.err))
  /\ UNCHANGED PgSvcFrame

\* exampleService.DeleteExample with s.repo a PostgreSQLExampleRepository
CallPgSvcDelete(p) ==
  \E id \in DOMAIN rows \cup {<<"r", "1">>} :
    /\ Begin(p, "svc.DeleteExample", [NoExample EXCEPT !.id = id])
    /\ pc' = [pc EXCEPT ![p] = "pgsvc_delete_get"]
    /\ UNCHANGED <<data, ent, res, ctxDone, locals, wrote, launched, notif, canceled,
                   timers, aside>>

\* the existence check: s.repo.GetByID
PgSvcDeleteGetWith(p, fault) ==
  /\ pc[p] = "pgsvc_delete_get"
  /\ IF req[p].id = <<>>
       THEN fault = "none" /\ Return(p, "ErrorCodeInvalidID")
     ELSE LET r == Faulty(fault, PostgresGetByID(rows, req[p].id))
          IN  IF r.err # "nil"
                THEN Return(p, mapRepositoryError(r.err))
                ELSE pc' = [pc EXCEPT ![p] = "pgsvc_delete_del"] /\ UNCHANGED res
  /\ UNCHANGED <<PgSvcFrame, ent, rows>>

\* s.repo.Delete
PgSvcDeleteDelWith(p, fault) ==
  /\ pc[p] = "pgsvc_delete_del"
  /\ LET r == IF fault = "none" THEN PostgresDelete(rows, req[p].id)
              ELSE [err |-> fault, data |-> rows]
     IN  /\ rows' = r.data
         /\ Return(p, mapRepositoryError(r.err))
  /\ UNCHANGED <<PgSvcFrame, ent>>

\* the two repository calls of DeleteExample when the database answers
PgSvcDeleteGet(p) == PgSvcDeleteGetWith(p, "none")

PgSvcDeleteDel(p) == PgSvcDeleteDelWith(p, "none")

\* one repository call of a service operation: the database answers it, or
\* the statement meets the fault
PgSvcRepoCall(p, fault) ==
  \/ PgSvcCreateCheckWith(p, fault)
  \/ PgSvcCreateSaveWith(p, fault)
  \/ PgSvcUpdateGetWith(p, fault)
  \/ PgSvcUpdateCheckWith(p, fault)
  \/ PgSvcUpdateSaveWith(p, fault)
  \/ PgSvcDeleteGetWith(p, fault)
  \/ PgSvcDeleteDelWith(p, fault)

\* ------------------------------------------ caller of both repositories

\* one caller issues every call to the in-memory repository and to the
\* PostgreSQL repository alike and keeps the two errors

TwinCall(call, mem, pg) ==
  /\ twin' = [call |-> call, mem |-> mem, pg |-> pg]
  /\ UNCHANGED <<handlers, clock, pager, pointers, pgret, besideTwin>>

TwinCreate(e) ==
  LET m == InMemoryCreate(data, e)
      r == PostgresCreate(rows, e)
  IN  /\ data' = m.data
      /\ rows' = r.data
      /\ TwinCall("Create", m.err, r.err)

TwinGetByID(id) ==
  /\ TwinCall("GetByID", InMemoryGetByID(data, id).err,
              PostgresGetByID(rows, id).err)
  /\ UNCHANGED <<data, rows>>

TwinGetByEmail(email) ==
  /\ TwinCall("GetByEmail",
              IF InMemoryGetByEmail(data, email) = {}
                THEN "ErrExampleNotFound" ELSE "nil",
              PostgresGetByEmail(rows, email).err)
  /\ UNCHANGED <<data, rows>>

TwinUpdate(e) ==
  LET m == InMemoryUpdate(data, e)
      r == PostgresUpdate(rows, e)
  IN  /\ data' = m.data
      /\ rows' = r.data
      /\ TwinCall("Update", m.err, r.err)

TwinDelete(id) ==
  LET m == InMemoryDelete(data, id)
      r == PostgresDelete(rows, id)
  IN  /\ data' = m.data
      /\ rows' = r.data
      /\ TwinCall("Delete", m.err, r.err)

\* the in-memory List has no failing branch
TwinList(limit, offset) ==
  /\ \E o \in PostgresOrders(rows) :
       TwinCall("List", "nil", PostgresList(rows, o, limit, offset).err)
  /\ UNCHANGED <<data, rows>>

\* the in-memory Count has no failing branch
TwinCount ==
  /\ TwinCall("Count", "nil", PostgresCount(rows).err)
  /\ UNCHANGED <<data, rows>>

\* -------------------------------------------------------- message producer

\* the event type of each changing operation
EventType(o) ==
  CASE o = "CreateExample" -> "example.created"
    [] o = "UpdateExample" -> "example.updated"
    [] o = "DeleteExample" -> "example.deleted"

\* PublishExampleCreated, PublishExampleUpdated, PublishExampleDeleted: the
\* event joins what the producer has been handed; initializeDependencies
\* builds the producer and stores it in Dependencies.Producer, and neither
\* the handler, the use case nor the service holds or calls it
publishEvent(b, type, id) == Append(b, [type |-> type, id |-> id])

\* ---------------------------------------------------------- HTTP transport

\* getDefaultHTTPStatus: ErrorCode -> HTTP status
getDefaultHTTPStatus(code) ==
  CASE code = "ErrorCodeExampleNotFound" -> 404
    [] code = "ErrorCodeExampleAlreadyExists" -> 409
    [] code \in {"ErrorCodeInvalidID", "ErrorCodeInvalidEmail",
                 "ErrorCodeInvalidAge", "ErrorCodeInvalidName",
                 "ErrorCodeInvalidInput", "ErrorCodeBadRequest",
                 "ErrorCodeInvalidRequest", "ErrorCodeValidationFailed"} -> 400
    [] code \in {"ErrorCodeBusinessLogicFail", "ErrorCodeCorporateEmailUnderage",
                 "ErrorCodeVIPDomainUnderage", "ErrorCodeProfanityDetected"} -> 422
    [] code = "ErrorCodeUnauthorized" -> 401
    [] code = "ErrorCodeForbidden" -> 403
    [] code = "ErrorCodeMethodNotAllowed" -> 405
    [] code = "ErrorCodeUnsupportedMediaType" -> 415
    [] code = "ErrorCodeTooManyRequests" -> 429
    [] code = "ErrorCodeServiceUnavailable" -> 503
    [] code = "ErrorCodeExternalAPIError" -> 502
    [] code \in {"ErrorCodeDatabaseError", "ErrorCodeInternalError",
                 "ErrorCodeValidationError"} -> 500
    [] OTHER -> 500

\* errs.New(code, err, details): an *AppError that carries the code's status
errsNew(code) ==
  [type |-> "AppError", code |-> code, status |-> getDefaultHTTPStatus(code)]

\* the error value a use case returns: the service's *AppError, or one of the
\* use case's own errors wrapped by fmt.Errorf
UseCaseError(err) ==
  IF err \in {"ErrUseCaseValidation", "ErrExternalService"}
    THEN [type |-> "error", code |-> err, status |-> 0]
    ELSE errsNew(err)

\* ExampleHandler.handleError: every branch for a specific error is
\* commented out, what is left wraps the error as an internal error
handleError(err) == errsNew("ErrorCodeInternalError")

\* ErrorHandlerMiddleware: the status of the response for the error the
\* handler returned, by the dynamic type of that error
ErrorHandlerMiddleware(e) == IF e.type = "AppError" THEN e.status ELSE 500

Operations == {"CreateExample", "GetExample", "GetExampleByEmail",
               "UpdateExample", "DeleteExample", "ListExamples",
               "ValidateAndCreateExample"}

\* the handlers that read a request body or query into a DTO
Binding == {"CreateExample", "UpdateExample", "ListExamples",
            "ValidateAndCreateExample"}

\* the errors the service reports for (name, email, age)
InputErrors == {"ErrorCodeInvalidName", "ErrorCodeInvalidEmail",
                "ErrorCodeInvalidAge", "ErrorCodeBusinessLogicFail",
                "ErrorCodeInvalidInput"}

\* the errors the use case of each handler can return
UseCaseErrors(o) ==
  CASE o = "CreateExample" ->
         InputErrors \cup {"ErrorCodeExampleAlreadyExists", "ErrorCodeDatabaseError"}
    [] o = "GetExample" ->
         {"ErrorCodeInvalidID", "ErrorCodeExampleNotFound", "ErrorCodeDatabaseError"}
    [] o = "GetExampleByEmail" ->
         {"ErrorCodeInvalidEmail", "ErrorCodeExampleNotFound", "ErrorCodeDatabaseError"}
    [] o = "UpdateExample" ->
         InputErrors \cup {"ErrorCodeInvalidID", "ErrorCodeExampleNotFound",
                           "ErrorCodeExampleAlreadyExists", "ErrorCodeDatabaseError"}
    [] o = "DeleteExample" ->
         {"ErrorCodeInvalidID", "ErrorCodeExampleNotFound", "ErrorCodeDatabaseError"}
    [] o = "ListExamples" -> {"ErrorCodeDatabaseError"}
    [] o = "ValidateAndCreateExample" ->
         InputErrors \cup {"ErrUseCaseValidation", "ErrExternalService",
                           "ErrorCodeExampleAlreadyExists", "ErrorCodeDatabaseError"}

\* the status of the response when the use case returns no error
SuccessStatus(o) ==
  IF o \in {"CreateExample", "ValidateAndCreateExample"} THEN 201 ELSE 200

HttpFrame == <<core, besideWeb>>

\* a request reaches its handler; input tells whether its body binds and
\* whether the bound DTO passes ValidateStruct
HttpRequest(o, input) ==
  /\ web.stage = "idle"
  /\ o \notin Binding => input = "ok"
  /\ o = "ListExamples" => input # "unbound"
  /\ web' = [NoWeb EXCEPT !.stage = "bound", !.operation = o, !.input = input]
  /\ UNCHANGED HttpFrame

\* the handler up to its call of the use case: CreateExample returns an
\* error of its own for a body that does not bind or validate,
\* ValidateAndCreateExample answers 422 itself for a DTO that does not
\* validate, every other handler goes on
HttpHandle ==
  /\ web.stage = "bound"
  /\ web' =
       IF web.operation = "CreateExample" /\ web.input = "unbound"
         THEN [web EXCEPT !.stage = "returned", !.err = "ErrorCodeInvalidRequest",
                          !.returned = errsNew("ErrorCodeInvalidRequest")]
       ELSE IF web.operation = "CreateExample" /\ web.input = "invalid"
         THEN [web EXCEPT !.stage = "returned", !.err = "ErrorCodeValidationFailed",
                          !.returned = errsNew("ErrorCodeValidationFailed")]
       ELSE IF web.operation = "ValidateAndCreateExample" /\ web.input # "ok"
         THEN [web EXCEPT !.stage = "responded", !.err = "ErrorCodeValidationFailed",
                          !.status = 422]
       ELSE [web EXCEPT !.stage = "called"]
  /\ UNCHANGED HttpFrame

\* the use case returns, and the handler returns in turn: CreateExample
\* hands the use case's error on as it is, the others pass it to handleError
HttpUseCaseReturns(err) ==
  /\ web.stage = "called"
  /\ err \in UseCaseErrors(web.operation) \cup {"nil"}
  /\ web' = [web EXCEPT
               !.stage = "returned",
               !.err = err,
               !.returned = IF err = "nil" THEN NoError
                            ELSE IF web.operation = "CreateExample"
                              THEN UseCaseError(err)
                            ELSE handleError(UseCaseError(err))]
  /\ UNCHANGED HttpFrame

\* echo writes the response: the handler's own on success, the
\* HTTPErrorHandler's for a returned error
HttpRespond ==
  /\ web.stage = "returned"
  /\ web' = [web EXCEPT
               !.stage = "responded",
               !.status = IF web.returned = NoError THEN SuccessStatus(web.operation)
                          ELSE ErrorHandlerMiddleware(web.returned)]
  /\ UNCHANGED HttpFrame

\* -------------------------------------------------------- message consumer

StrConnection == <<"c", "o", "n", "n", "e", "c", "t", "i", "o", "n">>

StrTimeout == <<"t", "i", "m", "e", "o", "u", "t">>

StrTemporary == <<"t", "e", "m", "p", "o", "r", "a", "r", "y">>

StrUnavailable == <<"u", "n", "a", "v", "a", "i", "l", "a", "b", "l", "e">>

\* the list isRetryableError walks
retryableErrors == <<StrConnection, StrTimeout, StrTemporary, StrUnavailable>>

\* containsInMiddle: str[i:i+len(substr)] for i from 1 to
\* len(str)-len(substr)-1, after the start and the end have been ruled out
containsInMiddle(str, substr) ==
  IF Len(substr) = 0 \/ Len(str) <= Len(substr) THEN FALSE
  ELSE IF \/ SubSeq(str, 1, Len(substr)) = substr
          \/ SubSeq(str, Len(str) - Len(substr) + 1, Len(str)) = substr
       THEN FALSE
       ELSE \E i \in 1..(Len(str) - Len(substr) - 1) :
              SubSeq(str, i + 1, i + Len(substr)) = substr

\* contains: the whole string, its start, its end, or its middle; the
\* comparison is on the bytes as they are
contains(str, substr) ==
  /\ Len(str) >= Len(substr)
  /\ \/ str = substr
     \/ /\ Len(str) > Len(substr)
        /\ \/ SubSeq(str, 1, Len(substr)) = substr
           \/ SubSeq(str, Len(str) - Len(substr) + 1, Len(str)) = substr
           \/ containsInMiddle(str, substr)

\* isRetryableError
isRetryableError(err) ==
  \E k \in 1..Len(retryableErrors) : contains(err.text, retryableErrors[k])

\* the event types the switch of handleMessage knows
KnownEventTypes == {"example.created", "example.updated", "example.deleted"}

\* handleMessage without the Ack of the default case of its switch
handleMessage_UnknownDropped(d) ==
  IF d.body = "garbage" THEN <<"Reject(false)">>
  ELSE IF d.body \notin KnownEventTypes THEN <<>>
  ELSE IF d.result.failed
       THEN IF isRetryableError(d.result) THEN <<"Reject(true)">>
            ELSE <<"Reject(false)">>
       ELSE <<"Ack">>

\* handleMessage: the Ack and Reject calls it makes on the delivery, in order
handleMessage(d) ==
  IF d.body = "garbage" THEN <<"Reject(false)">>
  ELSE IF d.body \notin KnownEventTypes THEN <<"Ack">>
  ELSE IF d.result.failed
       THEN IF isRetryableError(d.result) THEN <<"Reject(true)">>
            ELSE <<"Reject(false)">>
       ELSE <<"Ack">>

\* the texts of the errors a handler returns: "timeout", "connection x",
\* "x unavailable", "a temporary b", "Timeout"
HandlerErrors ==
  { StrTimeout,
    StrConnection \o <<" ", "x">>,
    <<"x", " ">> \o StrUnavailable,
    <<"a", " ">> \o StrTemporary \o <<" ", "b">>,
    <<"T">> \o Tail(StrTimeout) }

\* the bodies the broker delivers: one that is no JSON, the three events,
\* and an event of a type the switch does not know
Bodies == {"garbage", "example.archived"} \cup KnownEventTypes

\* a body and what the handler will return for it; the handler is only
\* called for the three events
Deliverable ==
  {[body |-> b, result |-> NoFailure] : b \in Bodies}
  \cup {[body |-> b, result |-> Failure(t)] : b \in KnownEventTypes, t \in HandlerErrors}

\* RabbitMQConsumer.Start
RmqStart ==
  /\ cons.mu = "free"
  /\ cons' =
       IF cons.isRunning
       THEN [cons EXCEPT !.returned =
               [call |-> "Start", err |-> "consumer is already running"]]
       ELSE IF cons.channel = "closed"
            THEN [cons EXCEPT !.returned =
                    [call |-> "Start", err |-> "failed to register consumer"]]
            ELSE [cons EXCEPT !.isRunning = TRUE, !.loop = "select",
                              !.ctx = "live",
                              !.returned = [call |-> "Start", err |-> "nil"]]
  /\ UNCHANGED <<core, besideConsumer, msgs, settled, mock>>

\* RabbitMQConsumer.Stop up to wg.Wait: the mutex is taken, a stopped
\* consumer returns nil at once, a running one closes stopChan
RmqStopBegin ==
  /\ cons.mu = "free"
  /\ cons' =
       IF ~cons.isRunning
       THEN [cons EXCEPT !.returned = [call |-> "Stop", err |-> "nil"]]
       ELSE IF cons.stopChan = "closed"
            THEN [cons EXCEPT !.returned =
                    [call |-> "Stop", err |-> "panic: close of closed channel"]]
            ELSE [cons EXCEPT !.stopChan = "closed", !.mu = "Stop"]
  /\ UNCHANGED <<core, besideConsumer, msgs, settled, mock>>

\* RabbitMQConsumer.Stop from wg.Wait on: the loop goroutine is gone, the
\* channel and the connection are closed, isRunning is cleared
RmqStopEnd ==
  /\ cons.mu = "Stop"
  /\ cons.loop = "exited"
  /\ cons' = [cons EXCEPT !.channel = "closed", !.isRunning = FALSE,
                          !.mu = "free",
                          !.returned = [call |-> "Stop", err |-> "nil"]]
  /\ UNCHANGED <<core, besideConsumer, msgs, settled, mock>>

\* the caller cancels the context it passed to Start
CancelCtx ==
  /\ cons.ctx = "live"
  /\ cons' = [cons EXCEPT !.ctx = "cancelled"]
  /\ UNCHANGED <<core, besideConsumer, msgs, settled, mock>>

\* the broker delivers a message on the consumer's channel
Deliver(d) ==
  /\ cons.loop # "none"
  /\ cons.channel = "open"
  /\ msgs.tags < MaxDeliveries
  /\ msgs' = [queue |-> Append(msgs.queue,
                               [tag |-> msgs.tags + 1, body |-> d.body,
                                result |-> d.result]),
              tags |-> msgs.tags + 1]
  /\ UNCHANGED <<core, besideConsumer, cons, settled, mock>>

\* the connection to the broker is lost: handleConnectionClose logs it, the
\* library closes the deliveries channel
ConnectionLost ==
  /\ cons.loop # "none"
  /\ cons.channel = "open"
  /\ cons' = [cons EXCEPT !.channel = "closed"]
  /\ UNCHANGED <<core, besideConsumer, msgs, settled, mock>>

\* the select of the loop goroutine: case <-c.stopChan
LoopStopped ==
  /\ cons.loop = "select"
  /\ cons.stopChan = "closed"
  /\ cons' = [cons EXCEPT !.loop = "exited"]
  /\ UNCHANGED <<core, besideConsumer, msgs, settled, mock>>

\* the select of the loop goroutine: case <-ctx.Done()
LoopCancelled ==
  /\ cons.loop = "select"
  /\ cons.ctx = "cancelled"
  /\ cons' = [cons EXCEPT !.loop = "exited"]
  /\ UNCHANGED <<core, besideConsumer, msgs, settled, mock>>

\* the select of the loop goroutine: case delivery, ok := <-msgs with ok
LoopReceive ==
  /\ cons.loop = "select"
  /\ msgs.queue # <<>>
  /\ cons' = [cons EXCEPT !.loop = "handling", !.delivery = Head(msgs.queue)]
  /\ msgs' = [msgs EXCEPT !.queue = Tail(msgs.queue)]
  /\ UNCHANGED <<core, besideConsumer, settled, mock>>

\* the select of the loop goroutine: the deliveries channel is closed
LoopClosed ==
  /\ cons.loop = "select"
  /\ msgs.queue = <<>>
  /\ cons.channel = "closed"
  /\ cons' = [cons EXCEPT !.loop = "exited"]
  /\ UNCHANGED <<core, besideConsumer, msgs, settled, mock>>

\* c.handleMessage(ctx, delivery), then back to the select
LoopHandle ==
  /\ cons.loop = "handling"
  /\ LET calls == handleMessage(cons.delivery)
     IN settled' = settled \o [k \in 1..Len(calls) |->
                                 [tag |-> cons.delivery.tag, call |-> calls[k]]]
  /\ cons' = [cons EXCEPT !.loop = "select", !.delivery = NoDelivery]
  /\ UNCHANGED <<core, besideConsumer, msgs, mock>>

\* the steps of the loop goroutine
LoopSteps ==
  \/ LoopStopped
  \/ LoopCancelled
  \/ LoopReceive
  \/ LoopClosed
  \/ LoopHandle

\* MockConsumer.Start
MockStart ==
  /\ mock' = [isRunning |-> TRUE, returned |-> [call |-> "Start", err |-> "nil"]]
  /\ UNCHANGED <<core, besideConsumer, cons, msgs, settled>>

\* MockConsumer.Stop
MockStop ==
  /\ mock' = [isRunning |-> FALSE, returned |-> [call |-> "Stop", err |-> "nil"]]
  /\ UNCHANGED <<core, besideConsumer, cons, msgs, settled>>

\* ----------------------------------------------------- database connection

\* the errors NewPostgreSQLConnection returns
ConnectErrors == {"failed to connect to PostgreSQL database",
                  "failed to get underlying sql.DB"}

\* the errors HealthCheck returns
HealthErrors == {"ping failed", "version query failed",
                 "transaction begin failed", "transaction rollback failed"}

\* TestConnection is called: i := 0 and the loop condition
CallTestConnection(maxRetries) ==
  /\ dial.pc = "idle"
  /\ dial' = [dial EXCEPT !.maxRetries = maxRetries,
                          !.pc = IF 0 < maxRetries THEN "connect" ELSE "return"]
  /\ UNCHANGED <<core, besideDial>>

\* conn, err = NewPostgreSQLConnection(cfg, logger); a connection is named
\* by the attempt that made it
DialConnect(outcome) ==
  /\ dial.pc = "connect"
  /\ dial' = IF outcome = "nil"
             THEN [dial EXCEPT !.attempts = @ + 1, !.conn = dial.attempts + 1,
                               !.err = "nil", !.pc = "health"]
             ELSE [dial EXCEPT !.attempts = @ + 1, !.conn = 0,
                               !.err = outcome, !.last = outcome,
                               !.pc = "retry"]
  /\ UNCHANGED <<core, besideDial>>

\* if err := conn.HealthCheck(); err == nil { return conn, nil }; the err
\* of the health check is a new variable of the if statement, the err of
\* the function keeps the nil of the connect
DialHealth(outcome) ==
  /\ dial.pc = "health"
  /\ dial' = IF outcome = "nil"
             THEN [dial EXCEPT !.pc = "done",
                               !.returned = [conn |-> dial.conn,
                                             err |-> NoDialError]]
             ELSE [dial EXCEPT !.last = outcome, !.pc = "retry"]
  /\ UNCHANGED <<core, besideDial>>

\* the end of a failed attempt: time.Sleep(retryDelay) if i < maxRetries-1,
\* then i++ and the loop condition
DialRetry ==
  /\ dial.pc = "retry"
  /\ dial' = [dial EXCEPT
                !.sleeps = IF dial.i < dial.maxRetries - 1 THEN @ + 1 ELSE @,
                !.i = @ + 1,
                !.pc = IF dial.i + 1 < dial.maxRetries THEN "connect"
                       ELSE "return"]
  /\ UNCHANGED <<core, besideDial>>

\* return nil, fmt.Errorf("failed to connect to database after %d
\* attempts: %w", maxRetries, err)
DialReturn ==
  /\ dial.pc = "return"
  /\ dial' = [dial EXCEPT
                !.pc = "done",
                !.returned = [conn |-> 0,
                              err |-> [failed |-> TRUE,
                                       attempts |-> dial.maxRetries,
                                       wraps |-> dial.err]]]
  /\ UNCHANGED <<core, besideDial>>

\* ------------------------------------------------- time and the deadlines

\* the requests blocked in a collaborator call under their externalCtx
ActiveReq ==
  {p \in Procs :
     \/ pc[p] = "uc_validate"
     \/ pc[p] = "enrich_wait" /\ (fetch[p] = "running" \/ enrich[p] = "running")}

\* the notification goroutines blocked in NotifyExampleCreated
ActiveNotif == {s \in Slots : notif[s].state = "calling"}

\* time passes by one tick, but not past a deadline some blocked call still
\* has to honour; readings of the clock beyond MaxClock are not told apart
Tick ==
  /\ \A p \in ActiveReq : left[p] # 0
  /\ \A s \in ActiveNotif : notif[s].left # 0
  /\ \/ clock < MaxClock
     \/ \E p \in ActiveReq : left[p] > 0
     \/ \E s \in ActiveNotif : notif[s].left > 0
  /\ clock' = IF clock < MaxClock THEN clock + 1 ELSE clock
  /\ left' = [p \in Procs |->
                IF p \in ActiveReq /\ left[p] > 0 THEN left[p] - 1 ELSE left[p]]
  /\ blocked' = [p \in Procs |->
                   IF p \in ActiveReq THEN blocked[p] + 1 ELSE blocked[p]]
  /\ notif' = [s \in Slots |->
                 IF s \in ActiveNotif /\ notif[s].left > 0
                   THEN [notif[s] EXCEPT !.left = @ - 1] ELSE notif[s]]
  /\ UNCHANGED <<data, pc, op, req, ent, res, ctxDone, locals, wrote, launched,
                 canceled, ops, bystanders>>

\* externalCtx expires while ValidateExample is blocked: the call returns
\* context.DeadlineExceeded
ValidateTimeout(p) ==
  /\ pc[p] = "uc_validate"
  /\ left[p] = 0
  /\ Return(p, validateOutcome("error"))
  /\ UNCHANGED <<data, op, req, ent, ctxDone, locals, wrote, launched, notif, ops,
                 canceled, timers, aside>>

\* externalCtx expires while GetExampleData is blocked
FetchTimeout(p) ==
  /\ fetch[p] = "running"
  /\ left[p] = 0
  /\ fetch' = [fetch EXCEPT ![p] = "fail"]
  /\ UNCHANGED <<data, pc, op, req, ent, res, ctxDone, enrich, extData,
                 enrichment, wrote, launched, notif, ops, canceled, timers, aside>>

\* externalCtx expires while EnrichExample is blocked
EnrichTimeout(p) ==
  /\ enrich[p] = "running"
  /\ left[p] = 0
  /\ enrich' = [enrich EXCEPT ![p] = "fail"]
  /\ UNCHANGED <<data, pc, op, req, ent, res, ctxDone, fetch, extData,
                 enrichment, wrote, launched, notif, ops, canceled, timers, aside>>

\* notifyCtx expires while NotifyExampleCreated is blocked: the error is
\* logged and the goroutine ends
NotifyTimeout(s) ==
  /\ notif[s].state = "calling"
  /\ notif[s].left = 0
  /\ notif' = [notif EXCEPT ![s] = NoNotif]
  /\ UNCHANGED <<data, pc, op, req, ent, res, ctxDone, locals, wrote, launched, ops,
                 canceled, timers, aside>>

\* ------------------------------------------------------------ the callers

\* the inbound request's context is cancelled (client gone, handler returned);
\* only the create paths are followed, the one place a context outlives a call
CancelRequest(p) ==
  /\ pc[p] # "idle"
  /\ op[p] \in CreateOps
  /\ ~ctxDone[p]
  /\ ctxDone' = [ctxDone EXCEPT ![p] = TRUE]
  /\ UNCHANGED <<data, pc, op, req, ent, res, locals, wrote, launched, notif, ops,
                 canceled, timers, aside>>

\* the caller has consumed the result; the goroutine serves the next request
Finish(p) ==
  /\ pc[p] = "done"
  /\ pc' = [pc EXCEPT ![p] = "idle"]
  /\ op' = [op EXCEPT ![p] = "none"]
  /\ req' = [req EXCEPT ![p] = NoExample]
  /\ ent' = [ent EXCEPT ![p] = NoExample]
  /\ res' = [res EXCEPT ![p] = "pending"]
  /\ ctxDone' = [ctxDone EXCEPT ![p] = FALSE]
  /\ fetch' = [fetch EXCEPT ![p] = "idle"]
  /\ enrich' = [enrich EXCEPT ![p] = "idle"]
  /\ extData' = [extData EXCEPT ![p] = "nil"]
  /\ enrichment' = [enrichment EXCEPT ![p] = "nil"]
  /\ wrote' = [wrote EXCEPT ![p] = "no"]
  /\ launched' = [launched EXCEPT ![p] = 0]
  /\ blocked' = [blocked EXCEPT ![p] = 0]
  /\ UNCHANGED <<data, notif, canceled, ops, left, aside>>

\* the callers of the repository
RepoCalls(p) ==
  \/ CallRepoCreate(p)
  \/ RepoCreate(p)
  \/ CallRepoUpdate(p)
  \/ RepoUpdate(p)
  \/ CallRepoDelete(p)
  \/ RepoDelete(p)

\* the callers of the business service
SvcCalls(p) ==
  \/ CallSvcCreate(p)
  \/ CallSvcUpdate(p)
  \/ CallSvcDelete(p)

\* the repository steps of the business service
SvcSteps(p) ==
  \/ SvcCreateCheck(p)
  \/ SvcCreateSave(p)
  \/ SvcUpdateGet(p)
  \/ SvcUpdateCheck(p)
  \/ SvcUpdateSave(p)
  \/ SvcDeleteGet(p)
  \/ SvcDeleteDel(p)

\* enrichExample
EnrichSteps(p) ==
  \/ EnrichStart(p)
  \/ FetchDone(p)
  \/ EnrichDone(p)
  \/ EnrichJoin(p)

\* the notification goroutines
NotifySteps ==
  \/ \E s \in Slots : NotifyCall(s)
  \/ \E s \in Slots : NotifyReturn(s)

\* every layer called by any number of concurrent callers
Next ==
  \/ \E p \in Procs : RepoCalls(p)
  \/ \E p \in Procs : SvcCalls(p)
  \/ \E p \in Procs : SvcSteps(p)
  \/ \E p \in Procs : CallCreateExample(p)
  \/ \E p \in Procs : CallValidateAndCreate(p)
  \/ \E p \in Procs : ExtValidate(p)
  \/ \E p \in Procs : CallGetExample(p)
  \/ \E p \in Procs : SvcGet(p)
  \/ \E p \in Procs : CallUpdateExample(p)
  \/ \E p \in Procs : CallDeleteExample(p)
  \/ \E p \in Procs : EnrichSteps(p)
  \/ \E p \in Procs : UcNotify(p)
  \/ NotifySteps
  \/ \E p \in Procs : CancelRequest(p)
  \/ \E p \in Procs : Finish(p)

Spec == Init /\ [][Next]_vars

\* callers that only create, each goroutine serving one call
NextCreates ==
  \/ \E p \in Procs : CallRepoCreate(p)
  \/ \E p \in Procs : RepoCreate(p)
  \/ \E p \in Procs : CallSvcCreate(p)
  \/ \E p \in Procs : SvcCreateCheck(p)
  \/ \E p \in Procs : SvcCreateSave(p)

SpecCreates == Init /\ [][NextCreates]_vars

\* the repository and the business service under their callers
NextStore ==
  \/ \E p \in Procs : RepoCalls(p)
  \/ \E p \in Procs : SvcCalls(p)
  \/ \E p \in Procs : SvcSteps(p)
  \/ \E p \in Procs : Finish(p)

SpecStore == Init /\ [][NextStore]_vars

\* reads through the use case, with their enrichment
NextEnrich ==
  \/ \E p \in Procs : CallGetExample(p)
  \/ \E p \in Procs : SvcGet(p)
  \/ \E p \in Procs : EnrichSteps(p)
  \/ \E p \in Procs : Finish(p)

SpecEnrich == Init /\ [][NextEnrich]_vars

\* plain creates through the use case with their notifications, next to
\* deletes and cancelled requests
NextNotify ==
  \/ \E p \in Procs : CallCreateExample(p)
  \/ \E p \in Procs : SvcCreateCheck(p)
  \/ \E p \in Procs : SvcCreateSave(p)
  \/ \E p \in Procs : UcNotify(p)
  \/ NotifySteps
  \/ \E p \in Procs : CallDeleteExample(p)
  \/ \E p \in Procs : SvcDeleteGet(p)
  \/ \E p \in Procs : SvcDeleteDel(p)
  \/ \E p \in Procs : CancelRequest(p)
  \/ \E p \in Procs : Finish(p)

SpecNotify == Init /\ [][NextNotify]_vars

\* both create paths of the use case, with cancelled requests
NextValidate ==
  \/ \E p \in Procs : CallCreateExample(p)
  \/ \E p \in Procs : CallValidateAndCreate(p)
  \/ \E p \in Procs : ExtValidate(p)
  \/ \E p \in Procs : SvcCreateCheck(p)
  \/ \E p \in Procs : SvcCreateSave(p)
  \/ \E p \in Procs : EnrichSteps(p)
  \/ \E p \in Procs : UcNotify(p)
  \/ NotifySteps
  \/ \E p \in Procs : CancelRequest(p)
  \/ \E p \in Procs : Finish(p)

SpecValidate == Init /\ [][NextValidate]_vars

\* the repository is filled by direct creates, then read page by page with
\* no write going on
NextList ==
  \/ \E p \in Procs : CallRepoCreate(p) /\ pager.state = "idle"
  \/ \E p \in Procs : RepoCreate(p)
  \/ \E p \in Procs : Finish(p) /\ pager.state = "idle"
  \/ PageStart
  \/ PageNext

SpecList == Init /\ [][NextList]_vars

\* one caller of the repository that keeps every pointer it passes or gets
\* and writes through them
NextAlias ==
  \/ AliasNew
  \/ \E a \in 1..MaxHeap : AliasCreate(a)
  \/ \E a \in 1..MaxHeap : AliasUpdate(a)
  \/ \E id \in DOMAIN slots : AliasGetByID(id)
  \/ \E email \in DirectEmails : AliasGetByEmail(email)
  \/ \E limit \in 1..MaxLimit : AliasList(limit)
  \/ \E a \in 1..MaxHeap : AliasMutate(a)

SpecAlias == Init /\ [][NextAlias]_vars

\* creates and updates of the repository and updates through the service,
\* issued one after the other by one caller, while time passes
TimedCalls(p) ==
  \/ CallRepoCreate(p)
  \/ RepoCreate(p)
  \/ CallRepoUpdate(p)
  \/ RepoUpdate(p)
  \/ CallSvcUpdate(p)
  \/ SvcUpdateGet(p)
  \/ SvcUpdateCheck(p)
  \/ SvcUpdateSave(p)
  \/ Finish(p)

NextTimed ==
  \/ TimedCalls(1)
  \/ Tick

SpecTimed == Init /\ [][NextTimed]_vars

\* the two repositories side by side, each under one caller that issues
\* one call after the other
NextRepos ==
  \/ CallRepoCreate(1)
  \/ RepoCreate(1)
  \/ CallRepoUpdate(1)
  \/ RepoUpdate(1)
  \/ Finish(1)
  \/ \E e \in PgExamples : PgCreate(e)
  \/ \E e \in PgExamples : PgUpdate(e)
  \/ \E i \in 1..2 : PgDelete(DirectID(i))

SpecRepos == Init /\ [][NextRepos]_vars

\* concurrent DeleteExample calls of the service, over either repository
NextDeletes ==
  \/ \E p \in Procs :
       \/ CallSvcDelete(p)
       \/ SvcDeleteGet(p)
       \/ SvcDeleteDel(p)
       \/ CallPgSvcDelete(p)
       \/ PgSvcDeleteGet(p)
       \/ PgSvcDeleteDel(p)
       \/ Finish(p)
  \/ \E e \in PgExamples : PgCreate(e)

SpecDeletes == Init /\ [][NextDeletes]_vars

\* the service called with the inputs that probe the field rules
NextRules ==
  \E p \in Procs :
    \/ CallSvcCreateRules(p)
    \/ SvcCreateCheck(p)
    \/ SvcCreateSave(p)
    \/ CallSvcUpdateRules(p)
    \/ SvcUpdateGet(p)
    \/ SvcUpdateCheck(p)
    \/ SvcUpdateSave(p)
    \/ Finish(p)

SpecRules == Init /\ [][NextRules]_vars

\* the service over a database whose statements can fail
NextFaults ==
  \E p \in Procs :
    \/ CallPgSvcCreate(p)
    \/ CallPgSvcUpdate(p)
    \/ CallPgSvcDelete(p)
    \/ PgSvcRepoCall(p, "none")
    \/ \E fault \in Faults : PgSvcRepoCall(p, fault)
    \/ Finish(p)

SpecFaults == Init /\ [][NextFaults]_vars

\* creates, updates and deletes through the use case, as the server's
\* handlers call them
NextEvents ==
  \/ \E p \in Procs : CallCreateExample(p)
  \/ \E p \in Procs : SvcCreateCheck(p)
  \/ \E p \in Procs : SvcCreateSave(p)
  \/ \E p \in Procs : UcNotify(p)
  \/ NotifySteps
  \/ \E p \in Procs : CallUpdateExample(p)
  \/ \E p \in Procs : SvcUpdateGet(p)
  \/ \E p \in Procs : SvcUpdateCheck(p)
  \/ \E p \in Procs : SvcUpdateSave(p)
  \/ \E p \in Procs : EnrichSteps(p)
  \/ \E p \in Procs : CallDeleteExample(p)
  \/ \E p \in Procs : SvcDeleteGet(p)
  \/ \E p \in Procs : SvcDeleteDel(p)
  \/ \E p \in Procs : Finish(p)

SpecEvents == Init /\ [][NextEvents]_vars

\* one request through the HTTP transport
NextHttp ==
  \/ \E o \in Operations, input \in {"ok", "unbound", "invalid"} :
       HttpRequest(o, input)
  \/ HttpHandle
  \/ \E err \in UNION {UseCaseErrors(o) : o \in Operations} \cup {"nil"} :
       HttpUseCaseReturns(err)
  \/ HttpRespond

SpecHttp == Init /\ [][NextHttp]_vars

\* every call made on both repositories
NextTwins ==
  \/ \E e \in PgExamples : TwinCreate(e)
  \/ \E i \in 1..2 : TwinGetByID(DirectID(i))
  \/ \E email \in DirectEmails : TwinGetByEmail(email)
  \/ \E e \in PgExamples : TwinUpdate(e)
  \/ \E i \in 1..2 : TwinDelete(DirectID(i))
  \/ \E limit \in 1..MaxLimit, offset \in 0..MaxLimit : TwinList(limit, offset)
  \/ TwinCount

SpecTwins == Init /\ [][NextTwins]_vars

\* a RabbitMQConsumer that is started and stopped while the broker delivers
\* and the handlers succeed or fail
NextConsumer ==
  \/ RmqStart
  \/ RmqStopBegin
  \/ RmqStopEnd
  \/ \E d \in Deliverable : Deliver(d)
  \/ LoopStopped
  \/ LoopReceive
  \/ LoopHandle

SpecConsumer == Init /\ [][NextConsumer]_vars

\* the RabbitMQConsumer with handlers that succeed
NextCancel ==
  \/ RmqStart
  \/ RmqStopBegin
  \/ RmqStopEnd
  \/ CancelCtx
  \/ \E d \in Deliverable : Deliver(d) /\ ~d.result.failed
  \/ ConnectionLost
  \/ LoopSteps

\* the loop goroutine is scheduled, and so is a Stop that waits for it; no
\* caller is obliged to call Start or Stop
SpecCancel ==
  /\ Init
  /\ [][NextCancel]_vars
  /\ WF_vars(LoopSteps)
  /\ WF_vars(RmqStopEnd)

\* one call of TestConnection
NextDial ==
  \/ \E maxRetries \in 0..MaxRetries : CallTestConnection(maxRetries)
  \/ \E outcome \in ConnectErrors \cup {"nil"} : DialConnect(outcome)
  \/ \E outcome \in HealthErrors \cup {"nil"} : DialHealth(outcome)
  \/ DialRetry
  \/ DialReturn

SpecDial == Init /\ [][NextDial]_vars

\* the Start and Stop calls on the two consumers, in any order
NextLifecycle ==
  \/ NextCancel
  \/ MockStart
  \/ MockStop

SpecLifecycle == Init /\ [][NextLifecycle]_vars

\* the steps the program takes by itself once a request is in
OwnSteps(p) ==
  \/ SvcCreateCheck(p)
  \/ SvcCreateSave(p)
  \/ UcNotify(p)
  \/ SvcGet(p)
  \/ EnrichStart(p)
  \/ EnrichJoin(p)

\* the ends of the collaborator calls of a request at their deadline
Expiry(p) ==
  \/ ValidateTimeout(p)
  \/ FetchTimeout(p)
  \/ EnrichTimeout(p)

\* the use case with a collaborator that never answers any call but honours
\* the cancellation of the context, each goroutine serving one request
NextDeadline ==
  \/ \E p \in Procs : CallCreateExample(p) /\ req'[p] \in ValidateRequests
  \/ \E p \in Procs : CallValidateAndCreate(p)
  \/ \E p \in Procs : CallGetExample(p)
  \/ \E p \in Procs : OwnSteps(p)
  \/ \E p \in Procs : Expiry(p)
  \/ \E s \in Slots : NotifyCall(s)
  \/ \E s \in Slots : NotifyTimeout(s)
  \/ Tick

\* goroutines that can run are scheduled, time passes, expired contexts
\* cancel their calls; the callers need not start or collect anything
SpecDeadline ==
  /\ Init
  /\ [][NextDeadline]_vars
  /\ WF_vars(Tick)
  /\ \A p \in Procs : WF_vars(OwnSteps(p))
  /\ \A p \in Procs : WF_vars(Expiry(p))
  /\ \A s \in Slots : WF_vars(NotifyCall(s))
  /\ \A s \in Slots : WF_vars(NotifyTimeout(s))

\* ------------------------------------------------------------------ claims

\* the calls of kind o that have returned and carried email e
Returned(o, e) == {p \in Procs : op[p] = o /\ pc[p] = "done" /\ req[p].email = e}

\* C1: of the repository Create calls that carry the same email with
\* distinct ids and run concurrently, at most one returns success and every
\* other one returns ErrExampleAlreadyExists
C1_AtMostOneRepoCreate ==
  \A e \in DirectEmails :
    /\ Cardinality({p \in Returned("repo.Create", e) : res[p] = "nil"}) <= 1
    /\ \A p \in Returned("repo.Create", e) :
         res[p] \in {"nil", "ErrExampleAlreadyExists"}
    /\ \A p, q \in Returned("repo.Create", e) :
         p # q => res[p] = "ErrExampleAlreadyExists" \/ res[q] = "ErrExampleAlreadyExists"

C1_Witness ==
  \E p, q \in Procs :
    /\ p # q
    /\ {p, q} \subseteq Returned("repo.Create", EmailY)
    /\ req[p].id # req[q].id
    /\ res[p] = "nil"
    /\ res[q] = "ErrExampleAlreadyExists"

\* the input passes shape validation, the business rules and the constructor
ValidInput(r) ==
  /\ validateInput(r.name, r.email, r.age) = "nil"
  /\ ValidateExampleBusinessRules(r.name, r.email, r.age) = "nil"
  /\ validateExample(r.name, r.email, r.age) = "nil"

\* C2: of the service CreateExample calls with the same email and valid
\* input that run concurrently, at most one returns a new entity and every
\* other one returns ErrorCodeExampleAlreadyExists, however their GetByEmail
\* pre-checks and repository Create steps interleave
C2_AtMostOneSvcCreate ==
  \A e \in {r.email : r \in Requests} :
    /\ Cardinality({p \in Procs : op[p] = "svc.CreateExample" /\ req[p].email = e
                                  /\ wrote[p] # "no"}) <= 1
    /\ \A p \in Returned("svc.CreateExample", e) :
         ValidInput(req[p]) => res[p] \in {"nil", "ErrorCodeExampleAlreadyExists"}
    /\ \A p, q \in Returned("svc.CreateExample", e) :
         p # q /\ ValidInput(req[p]) /\ ValidInput(req[q])
           => res[p] = "ErrorCodeExampleAlreadyExists"
                \/ res[q] = "ErrorCodeExampleAlreadyExists"

C2_Witness ==
  \E p, q \in Procs :
    /\ p # q
    /\ {p, q} \subseteq Returned("svc.CreateExample", EmailY)
    /\ res[p] = "nil"
    /\ res[q] = "ErrorCodeExampleAlreadyExists"

\* C3: no two stored Examples have the same email, whatever Create, Update
\* and Delete calls (direct or through the service) have run and however
\* they interleaved
C3_UniqueEmail ==
  \A i, j \in DOMAIN data : i # j => data[i].email # data[j].email

C3_Witness ==
  /\ Cardinality(DOMAIN data) >= 2
  /\ \E p \in Procs :
       /\ op[p] \in {"repo.Update", "svc.UpdateExample"}
       /\ pc[p] = "done"
       /\ res[p] \in {"ErrExampleAlreadyExists", "ErrorCodeExampleAlreadyExists"}

\* C4: a service CreateExample with valid input whose email no live Example
\* holds persists the new Example under a fresh id and returns it, whatever
\* Examples with other emails are stored
C4_CreateUnderFreshId ==
  [][\A p \in Procs :
       (/\ SvcCreateSave(p)
        /\ op[p] = "svc.CreateExample"
        /\ EmailHolders(data, ent[p].email) = {})
         => /\ ent[p].id \notin DOMAIN data
            /\ ent[p].id \in DOMAIN data'
            /\ data'[ent[p].id] = ent[p]
            /\ res'[p] = "nil"]_vars

\* the requests that run enrichExample
EnrichOps == {"GetExample", "UpdateExample", "ValidateAndCreateExample"}

\* the request is past the wg.Wait() of its enrichExample
Joined(p) ==
  /\ op[p] \in EnrichOps
  /\ pc[p] \in {"uc_notify", "done"}
  /\ fetch[p] # "idle"

\* C5: enrichExample issues both GetExampleData and EnrichExample, and is
\* past wg.Wait() only when both calls have completed, also when one failed
C5_BothIssuedBothAwaited ==
  \A p \in Procs :
    /\ (fetch[p] = "idle") <=> (enrich[p] = "idle")
    /\ pc[p] = "enrich_wait" => fetch[p] # "idle" /\ enrich[p] # "idle"
    /\ Joined(p) => fetch[p] \in {"ok", "fail"} /\ enrich[p] \in {"ok", "fail"}

C5_Witness ==
  \E p \in Procs : Joined(p) /\ fetch[p] = "ok" /\ enrich[p] = "fail"

\* C6: GetExample succeeds for every combination of outcomes of the two
\* calls; its result carries external data exactly when GetExampleData
\* succeeded and enrichment data exactly when EnrichExample succeeded
C6_HalvesIndependent ==
  \A p \in Procs :
    op[p] = "GetExample" /\ pc[p] = "done" /\ fetch[p] # "idle"
      => /\ res[p] = "nil"
         /\ (extData[p] = "data") <=> (fetch[p] = "ok")
         /\ (enrichment[p] = "data") <=> (enrich[p] = "ok")

C6_Witness ==
  \E p \in Procs :
    /\ op[p] = "GetExample" /\ pc[p] = "done"
    /\ fetch[p] = "fail" /\ enrich[p] = "ok"
    /\ extData[p] = "nil" /\ enrichment[p] = "data"

\* C7 as stated: at the moment NotifyExampleCreated is first invoked for an
\* Example, the Example has been inserted and is readable from the repository
C7_ReadableAtNotify ==
  [][\A s \in Slots : NotifyCall(s) => notif[s].id \in DOMAIN data]_vars

\* C7 amended: at the moment NotifyExampleCreated is first invoked for an
\* Example, its insert has completed, and the Example is readable from the
\* repository unless a Delete of its id has completed since the insert
C7_NotifyAfterWrite ==
  [][\A s \in Slots :
       NotifyCall(s)
         => /\ notif[s].written # "no"
            /\ notif[s].written = "stored" => notif[s].id \in DOMAIN data]_vars

C7_Witness ==
  \E s \in Slots :
    /\ notif[s].state = "calling"
    /\ notif[s].written = "stored"
    /\ notif[s].id \in DOMAIN data
    /\ data[notif[s].id].email = notif[s].email

\* the entity CreateExample builds from its request
Built(r) == NewExample(generateExampleID(r.name, r.email), r.name, r.email, r.age)

\* the notification goroutines request p has started that have not ended
Pending(p) ==
  {s \in Slots : notif[s].owner = p /\ notif[s].state \in {"spawned", "calling"}}

\* C8: once the service has created the entity, use-case CreateExample
\* returns that entity and no error, whether the notification succeeds,
\* fails, times out or never returns, and without waiting for it
C8_ResultIgnoresNotification ==
  \A p \in Procs :
    op[p] = "CreateExample" /\ pc[p] = "done" /\ wrote[p] # "no"
      => /\ res[p] = "nil"
         /\ ent[p] = Built(req[p])
         /\ launched[p] = 1

C8_Witness ==
  \E p \in Procs :
    /\ op[p] = "CreateExample" /\ pc[p] = "done" /\ res[p] = "nil"
    /\ \E s \in Pending(p) : notif[s].state = "calling" /\ notif[s].id = ent[p].id

\* C9: a create through CreateExample or ValidateAndCreateExample starts
\* exactly one notification goroutine, for the created id and email, when
\* it succeeds, and none when it fails or the input is rejected
C9_OneNotificationPerCreate ==
  /\ [](\A p \in Procs :
         /\ launched[p] <= 1
         /\ launched[p] = 1 => wrote[p] # "no"
         /\ op[p] \in CreateOps /\ pc[p] = "done"
              => launched[p] = (IF res[p] = "nil" THEN 1 ELSE 0))
  /\ [][\A p \in Procs :
         launched'[p] > launched[p]
           => \E s \in Slots :
                /\ notif[s].state = "free"
                /\ notif'[s].state = "spawned"
                /\ notif'[s].id = ent[p].id
                /\ notif'[s].email = ent[p].email
                /\ \A t \in Slots \ {s} : notif'[t] = notif[t]]_vars

C9_Witness ==
  \E p \in Procs :
    /\ op[p] = "ValidateAndCreateExample" /\ pc[p] = "done" /\ res[p] = "nil"
    /\ fetch[p] = "fail" /\ enrich[p] = "fail"
    /\ launched[p] = 1
    /\ \E s \in Pending(p) : notif[s].id = ent[p].id

\* C10: cancelling the inbound request's context, before or after the
\* create returns, never cancels the notification: its context derives from
\* context.Background() only, and no notification call ends with Canceled
C10_NotificationNotCancelled ==
  /\ ~canceled
  /\ \A s \in Slots : notif[s].state # "free" => notif[s].parent = "background"

C10_Witness ==
  \E p \in Procs :
    /\ op[p] \in CreateOps /\ pc[p] = "done" /\ ctxDone[p]
    /\ \E s \in Pending(p) : notif[s].state = "calling" /\ notif[s].written # "no"

\* C11: every collaborator call of the use case runs under a deadline of at
\* most Timeout; with a collaborator that never answers but honours
\* cancellation no request stays blocked in collaborator calls for more than
\* Timeout, every blocked request returns, and every notification goroutine ends
C11_CallsBoundedByTimeout ==
  /\ [](\A p \in Procs :
         /\ blocked[p] <= Timeout
         /\ p \in ActiveReq => left[p] \in 0..Timeout)
  /\ [](\A s \in ActiveNotif : notif[s].left \in 0..Timeout)
  /\ \A p \in Procs : (pc[p] \in {"uc_validate", "enrich_wait"}) ~> (pc[p] = "done")
  /\ \A s \in Slots : (notif[s].state # "free") ~> (notif[s].state = "free")

C11_Witness ==
  \E p \in Procs :
    /\ op[p] = "GetExample" /\ pc[p] = "done" /\ res[p] = "nil"
    /\ fetch[p] = "fail" /\ enrich[p] = "fail"
    /\ blocked[p] = Timeout

\* C12: when ValidateExample answers false or fails, ValidateAndCreateExample
\* returns without entering the business service and without creating a
\* record, with ErrUseCaseValidation for a false and ErrExternalService for a
\* failed call
C12_RejectedCreatesNothing ==
  [][\A p \in Procs : \A a \in {"false", "error"} :
       ExtValidateWith(p, a)
         => /\ data' = data
            /\ ent'[p] = NoExample
            /\ wrote'[p] = "no"
            /\ launched'[p] = 0
            /\ pc'[p] = "done"
            /\ res'[p] = (IF a = "false" THEN "ErrUseCaseValidation"
                          ELSE "ErrExternalService")]_vars

C12_Witness ==
  \E p \in Procs :
    /\ op[p] = "ValidateAndCreateExample" /\ pc[p] = "done"
    /\ res[p] = "ErrUseCaseValidation"
    /\ ent[p] = NoExample /\ wrote[p] = "no"
    /\ req[p].email \notin {data[i].email : i \in DOMAIN data}

\* C13: with N records stored and no write going on, the pages List(limit, 0),
\* List(limit, limit), List(limit, 2*limit), ... put end to end hold each of
\* the N records exactly once, and Count() is N
C13_PagesPartition ==
  pager.state = "done"
    => /\ pager.total = Cardinality(DOMAIN data)
       /\ Len(pager.got) = Cardinality(DOMAIN data)
       /\ {pager.got[i] : i \in DOMAIN pager.got} = DOMAIN data

\* C14: a write through a pointer that was passed to Create or Update, or
\* returned by GetByID, GetByEmail or List, never changes what the
\* repository's reads return
C14_NoSharedState ==
  [][\A a \in 1..MaxHeap :
       AliasMutate(a)
         => /\ Stored(heap', slots') = Stored(heap, slots)
            /\ data' = data]_vars

C14_Witness ==
  \E a \in held : \E id \in DOMAIN slots :
    /\ heap[a].id = id
    /\ heap[a].name = NameBob
    /\ data[id].name = NameAl
    /\ data[id].email = heap[a].email

\* the calls that update a stored Example: Update of the repository and
\* UpdateExample of the service
UpdateOps == {"repo.Update", "svc.UpdateExample"}

\* request p returns from an update in this step, with success
UpdateSucceeds(p) ==
  /\ op[p] \in UpdateOps
  /\ pc[p] # "done" /\ pc'[p] = "done"
  /\ res'[p] = "nil"

\* request p returns from an update in this step, with an error
UpdateFails(p) ==
  /\ op'[p] \in UpdateOps
  /\ pc[p] # "done" /\ pc'[p] = "done"
  /\ res'[p] # "nil"

\* C15: a successful Update, of the repository or through the service,
\* leaves the id and the created_at of the stored Example as they were
C15_UpdateKeepsIdAndCreatedAt ==
  [][\A p \in Procs :
       UpdateSucceeds(p)
         => /\ DOMAIN data' = DOMAIN data
            /\ data'[req[p].id].id = data[req[p].id].id
            /\ data'[req[p].id].createdAt = data[req[p].id].createdAt]_vars

\* C16: a successful repository Update replaces the stored state and sets
\* the stored updated_at to a value strictly later than the one stored before
C16_UpdateAdvancesUpdatedAt ==
  [][\A p \in Procs :
       RepoUpdate(p) /\ res'[p] = "nil"
         => /\ data'[req[p].id].name = req[p].name
            /\ data'[req[p].id].email = req[p].email
            /\ data'[req[p].id].age = req[p].age
            /\ data'[req[p].id].updatedAt > data[req[p].id].updatedAt]_vars

\* C17: an update that fails, with ErrExampleNotFound, ErrExampleAlreadyExists
\* or a validation or business-rule rejection, at entity, repository or service
\* level, leaves every stored record as it was, updated_at included; a
\* rejected Example.Update leaves the entity as it was
C17_FailedUpdateChangesNothing ==
  [][\A p \in Procs :
       /\ UpdateFails(p) => data' = data
       /\ SvcUpdateGet(p) \/ SvcUpdateCheck(p) => data' = data
       /\ SvcUpdateSave(p) /\ res'[p] = "ErrorCodeInvalidInput" => ent'[p] = ent[p]]_vars

C17_Witness ==
  \E p \in Procs :
    /\ op[p] = "svc.UpdateExample" /\ pc[p] = "done"
    /\ res[p] = "ErrorCodeInvalidInput"
    /\ req[p].id \in DOMAIN data
    /\ ent[p] = data[req[p].id]
    /\ ent[p].updatedAt < clock

\* C18: every stored Example has created_at <= updated_at, in every
\* reachable state
C18_CreatedBeforeUpdated ==
  \A id \in DOMAIN data : data[id].createdAt <= data[id].updatedAt

C18_Witness ==
  \E p \in Procs :
    /\ op[p] = "svc.UpdateExample" /\ pc[p] = "done" /\ res[p] = "nil"
    /\ req[p].id \in DOMAIN data
    /\ data[req[p].id].name = req[p].name
    /\ 0 < data[req[p].id].createdAt
    /\ data[req[p].id].createdAt < data[req[p].id].updatedAt

\* C19: after a successful Create(e), GetByID(e.id) succeeds and returns a
\* value equal to e in id, name, email and age, whose created_at equals its
\* updated_at
C19_CreateThenGet ==
  [][\A p \in Procs :
       RepoCreate(p) /\ res'[p] = "nil"
         => LET got == InMemoryGetByID(data', req[p].id)
            IN  /\ got.err = "nil"
                /\ got.example.id = req[p].id
                /\ got.example.name = req[p].name
                /\ got.example.email = req[p].email
                /\ got.example.age = req[p].age
                /\ got.example.createdAt = got.example.updatedAt]_vars

\* C20 for one Update(e) on the stored records d that returned err:
\* ErrExampleNotFound when no record has e's id, ErrExampleAlreadyExists when
\* another record holds e's email, and not ErrExampleAlreadyExists when the
\* record with e's id is the only holder of e's email
UpdateErrorAsSpecified(d, e, err) ==
  /\ e.id \notin DOMAIN d => err = "ErrExampleNotFound"
  /\ e.id \in DOMAIN d /\ EmailHolders(d, e.email) \ {e.id} # {}
       => err = "ErrExampleAlreadyExists"
  /\ e.id \in DOMAIN d /\ EmailHolders(d, e.email) \subseteq {e.id}
       => err # "ErrExampleAlreadyExists"

\* C20: Update of either repository fails with ErrExampleNotFound for an id
\* that is not stored, with ErrExampleAlreadyExists for an email another
\* record holds, and not with ErrExampleAlreadyExists for the record's own email
C20_UpdateErrors ==
  [][/\ \A p \in Procs :
          RepoUpdate(p) => UpdateErrorAsSpecified(data, req[p], res'[p])
     /\ \A e \in PgExamples :
          PgUpdate(e) => UpdateErrorAsSpecified(rows, e, pgret'.err)]_vars

\* C21: after every call made on both repositories from the same stored
\* records, the in-memory repository and the PostgreSQL repository have
\* returned the same outcome kind (nil, ErrExampleNotFound or
\* ErrExampleAlreadyExists)
C21_SameOutcomeKinds == twin.mem = twin.pg

\* C22: DeleteExample returns success only from a call whose Delete removed
\* a record that was stored, and a DeleteExample that finds the id absent,
\* at its existence check or at its Delete, fails with
\* ErrorCodeExampleNotFound; so of the concurrent calls for one stored id
\* exactly one succeeds
C22_DeleteSucceedsOnce ==
  [][\A p \in Procs :
       /\ SvcDeleteDel(p) /\ res'[p] = "nil"
            => req[p].id \in DOMAIN data /\ req[p].id \notin DOMAIN data'
       /\ PgSvcDeleteDel(p) /\ res'[p] = "nil"
            => req[p].id \in DOMAIN rows /\ req[p].id \notin DOMAIN rows'
       /\ (SvcDeleteGet(p) \/ SvcDeleteDel(p)) /\ req[p].id \notin DOMAIN data
            => res'[p] = "ErrorCodeExampleNotFound"
       /\ (PgSvcDeleteGet(p) \/ PgSvcDeleteDel(p)) /\ req[p].id \notin DOMAIN rows
            => res'[p] = "ErrorCodeExampleNotFound"]_vars

\* C23: a repository call of a service operation that meets a connection
\* or timeout fault makes the operation return ErrorCodeDatabaseError at
\* once: no further repository call, no retry, nothing written
C23_FaultSurfaces ==
  [][\A p \in Procs, fault \in Faults :
       PgSvcRepoCall(p, fault)
         => /\ pc'[p] = "done"
            /\ res'[p] = "ErrorCodeDatabaseError"
            /\ rows' = rows]_vars

\* the field rules of the data model, as the code states each of them
FieldRules(e) ==
  /\ Len(e.name) >= MinNameLen /\ Len(e.name) <= MaxNameLen
  /\ validateName(e.name)
  /\ ~containsProfanity(e.name)
  /\ isValidEmail(e.email)
  /\ validateAge(e.age)

\* C24: every Example stored through the service satisfies the field rules:
\* a name of 1 to 100 letters, spaces, hyphens and apostrophes without
\* leading, trailing or double spaces that is no blocked word, a
\* well-formed email, an age in [0, 150]
C24_PersistedObeyFieldRules == \A id \in DOMAIN data : FieldRules(data[id])

\* the statuses by which a caller recognises each kind of error
StatusClass(err) ==
  CASE err = "ErrorCodeExampleNotFound" -> {404}
    [] err = "ErrorCodeExampleAlreadyExists" -> {409}
    [] err \in InputErrors \cup {"ErrorCodeInvalidID", "ErrorCodeInvalidRequest",
                                "ErrorCodeValidationFailed",
                                "ErrUseCaseValidation"} -> {400, 422}
    [] OTHER -> 500..599

\* C25: whichever operation a request is for, the response to an error has
\* the status of that error's kind: 400 or 422 for bad input, 409 for
\* already exists, 404 for a missing resource, 5xx for an internal failure
C25_StableClassification ==
  web.stage = "responded" /\ web.err # "nil"
    => web.status \in StatusClass(web.err)

\* C26: every create, update and delete that has returned success through
\* the use case has its example.created, example.updated or
\* example.deleted event among the events handed to the producer
C26_EventPerChange ==
  \A p \in Procs :
    /\ pc[p] = "done" /\ res[p] = "nil"
    /\ op[p] \in {"CreateExample", "UpdateExample", "DeleteExample"}
    => \E i \in DOMAIN bus :
         /\ bus[i].type = EventType(op[p])
         /\ bus[i].id = IF op[p] = "CreateExample" THEN ent[p].id ELSE req[p].id

\* what the lifecycle asks of a consumer c once a call has returned: the call
\* returned no error, the consumer runs after Start and does not after Stop
LifecycleHolds(c) ==
  /\ c.returned.err = "nil"
  /\ c.returned.call = "Start" => c.isRunning
  /\ c.returned.call = "Stop" => ~c.isRunning

\* C27: for any sequence of Start and Stop calls on a consumer, every call
\* returns without error, the consumer is running after each Start and is
\* not running after each Stop: a second Start while running, a second Stop
\* while stopped and a Start after an earlier Stop all succeed.
C27_LifecycleCallsSucceed ==
  /\ LifecycleHolds(mock)
  /\ LifecycleHolds(cons)

\* C28: TestConnection makes at most maxRetries attempts and returns the
\* connection of the first attempt that connects and passes the health
\* check; otherwise it returns a nil connection and an error that reports
\* the number of attempts and wraps the last failure. It sleeps retryDelay
\* between consecutive attempts and not after the last one.
C28_RetryThenReport ==
  dial.pc = "done" =>
    /\ dial.attempts <= dial.maxRetries
    /\ dial.sleeps = IF dial.attempts = 0 THEN 0 ELSE dial.attempts - 1
    /\ IF dial.returned.conn # 0
       THEN /\ dial.returned.conn = dial.attempts
            /\ ~dial.returned.err.failed
       ELSE /\ dial.returned.err.failed
            /\ dial.returned.err.attempts = dial.attempts
            /\ dial.returned.err.wraps = dial.last

\* C29: when the context passed to a running consumer's Start is cancelled,
\* the consumer stops by itself: its loop exits and it is no longer running
\* (so that a later Start is accepted).
C29_CancelStopsConsumer ==
  (cons.isRunning /\ cons.ctx = "cancelled")
    ~> (cons.loop = "exited" /\ ~cons.isRunning)

\* the Ack and Reject calls made so far on the delivery with tag t
Settlements(t) == Cardinality({k \in 1..Len(settled) : settled[k].tag = t})

\* the delivery with tag t waits in the deliveries channel or is in the
\* hands of handleMessage
Unsettled(t) ==
  \/ cons.delivery.tag = t
  \/ \E k \in 1..Len(msgs.queue) : msgs.queue[k].tag = t

\* the settlement of a delivery: Ack when the handler succeeds or the event
\* type is unknown, Reject with requeue on a retryable error, Reject without
\* requeue when the body cannot be parsed or the error is not retryable
Settlement(d) ==
  CASE d.body = "garbage" -> "Reject(false)"
    [] d.body # "garbage" /\ d.body \notin KnownEventTypes -> "Ack"
    [] d.body \in KnownEventTypes /\ ~d.result.failed -> "Ack"
    [] d.body \in KnownEventTypes /\ d.result.failed /\ isRetryableError(d.result)
         -> "Reject(true)"
    [] d.body \in KnownEventTypes /\ d.result.failed /\ ~isRetryableError(d.result)
         -> "Reject(false)"

====
